---- MODULE Spec2Model ----
(***************************************************************************)
(* Redo meta manager of the owner (cdc/redo/meta_manager.go).              *)
(*                                                                         *)
(* The model has the goroutines of one metaManager over one external       *)
(* storage root:                                                           *)
(*   - the owner goroutine: NewMetaManagerWithInit (preCleanupExtStorage,  *)
(*     initMeta), Run, then UpdateMeta / GetFlushedMeta / Cleanup;         *)
(*   - bgFlushMeta: one maybeFlushMeta per tick;                           *)
(*   - bgGC: one sweep per tick;                                           *)
(* and the crash of the process followed by a restart over the storage it  *)
(* left behind.  Every load and store of a statefulRts field and every     *)
(* storage call is a step of its own, so the goroutines interleave exactly *)
(* where the code lets them.                                               *)
(***************************************************************************)
EXTENDS Integers, Sequences, FiniteSets, TLC

(***************************************************************************)
(* Bounds of the model.                                                    *)
(***************************************************************************)
\* timestamps passed to UpdateMeta range over 1..MaxTs
MaxTs == 2
\* number of process crashes (each followed by a restart)
MaxCrash == 1

Ts == 0..MaxTs

(***************************************************************************)
(* Identities.  The manager under study serves changefeed Feed on capture  *)
(* CaptureID; OtherFeed shares the storage root.                           *)
(***************************************************************************)
DefaultNamespace == "default"
Feed == [Namespace |-> "default", ID |-> "a"]
OtherFeed == [Namespace |-> "default", ID |-> "b"]
CaptureID == "cap"
OldCaptureID == "old"

\* file extensions and file types of pkg/redo
MetaEXT == ".meta"
LogEXT == ".log"
RedoMetaFileType == "meta"
RedoRowLogFileType == "row"
RedoDDLLogFileType == "ddl"

(***************************************************************************)
(* Paths.  A path is the sequence of its "_"-separated pieces followed by  *)
(* its extension: "cap_default_a_meta_1.meta" is                           *)
(* [toks |-> <<"cap","default","a","meta","1">>, ext |-> ".meta"].         *)
(* Capture addresses, namespaces, changefeed ids and uuids hold no "_".    *)
(***************************************************************************)
Path(toks, ext) == [toks |-> toks, ext |-> ext]

\* the empty string, where the code holds no file name
NoFile == Path(<<>>, "")

\* strings.HasSuffix(path, ext) for an extension
HasSuffix(path, ext) == path.ext = ext

\* strings.Contains(path, "_" + m[1] + "_" + ... + m[n] + "_"): the pieces of
\* m occur in a row, with a piece before them and a piece after them
Contains(path, m) ==
  \E i \in 2..(Len(path.toks) - Len(m)) :
     SubSeq(path.toks, i, i + Len(m) - 1) = m

\* the pieces between the outer underscores of the changefeed matcher
getChangefeedMatcher(changeFeedID) ==
  IF changeFeedID.Namespace = "default"
    THEN <<changeFeedID.ID>>
    ELSE <<changeFeedID.Namespace, changeFeedID.ID>>

getDeletedChangefeedMarker(changeFeedID) ==
  IF changeFeedID.Namespace = DefaultNamespace
    THEN Path(<<"delete", changeFeedID.ID>>, "")
    ELSE Path(<<"delete", changeFeedID.Namespace, changeFeedID.ID>>, "")

\* RedoMetaFileFormat: <capture>_<namespace>_<feed>_meta_<uuid>.meta
getMetafileName(captureID, changeFeedID, uuid) ==
  Path(<<captureID, changeFeedID.Namespace, changeFeedID.ID,
         RedoMetaFileType, ToString(uuid)>>, MetaEXT)

\* RedoLogFileFormatV2: <capture>_<namespace>_<feed>_<type>_<maxCommitTs>_<uuid>.log
LogFileName(captureID, changeFeedID, fileType, commitTs, uuid) ==
  Path(<<captureID, changeFeedID.Namespace, changeFeedID.ID,
         fileType, ToString(commitTs), uuid>>, LogEXT)

(***************************************************************************)
(* LogMeta and its msgpack encoding: a map of two named fields.            *)
(***************************************************************************)
LogMeta(c, r) == [CheckpointTs |-> c, ResolvedTs |-> r]

MarshalMsg(meta) ==
  <<"checkpointTs", meta.CheckpointTs, "resolvedTs", meta.ResolvedTs>>

\* decodes the fields by name; a field that is absent keeps its zero value
UnmarshalMsg(data) ==
  LET Field(name) ==
        IF \E i \in 1..(Len(data) \div 2) : data[2 * i - 1] = name
          THEN data[2 * (CHOOSE i \in 1..(Len(data) \div 2) : data[2 * i - 1] = name)]
          ELSE 0
  IN  LogMeta(Field("checkpointTs"), Field("resolvedTs"))

Max(a, b) == IF a >= b THEN a ELSE b

SetMax(S) == IF S = {} THEN 0 ELSE CHOOSE x \in S : \A y \in S : y <= x

\* common.ParseMeta: the maximum of each field, resolvedTs raised to checkpointTs
ParseMeta(metas) ==
  LET c == SetMax({m.CheckpointTs : m \in metas})
      r == SetMax({m.ResolvedTs : m \in metas})
  IN  LogMeta(c, IF r < c THEN c ELSE r)

(***************************************************************************)
(* statefulRts: a pair of atomically loaded and stored timestamps.         *)
(***************************************************************************)
StatefulRts(f, u) == [flushed |-> f, unflushed |-> u]

\* faulty variant: a lower value is stored too
checkAndSetOk_Always(s, v) == TRUE

\* checkAndSetUnflushed: false and no change when v < unflushed
checkAndSetOk(s, v) == ~(v < s.unflushed)
checkAndSetUnflushed(s, v) ==
  IF checkAndSetOk(s, v) THEN [s EXCEPT !.unflushed = v] ELSE s

setFlushed(s, v) == [s EXCEPT !.flushed = v]

(***************************************************************************)
(* External storage: a function from the paths that exist to their bytes.  *)
(***************************************************************************)
Files(st) == DOMAIN st

WriteFile(st, path, data) ==
  [p \in (DOMAIN st) \cup {path} |-> IF p = path THEN data ELSE st[p]]

\* deleting a set of paths; a path that is already gone is not an error
DeleteFiles(st, paths) == [p \in (DOMAIN st) \ paths |-> st[p]]

EmptyStorage == [p \in {} |-> <<>>]

(***************************************************************************)
(* The files found in the storage root before the first start: what an     *)
(* earlier owner (capture "old") left for this changefeed, a meta file of  *)
(* another changefeed, a file that is no redo file, and one redo log.      *)
(***************************************************************************)
OldMetaFile == Path(<<OldCaptureID, "default", "a", "meta", "x">>, MetaEXT)
EmptyMetaFile == Path(<<OldCaptureID, "default", "a", "meta", "y">>, MetaEXT)
OtherFeedMetaFile == getMetafileName(CaptureID, OtherFeed, 0)
StrayFile == Path(<<"stray">>, ".txt")
RowLogFile == LogFileName(CaptureID, Feed, RedoRowLogFileType, 1, "l")

OldMeta == LogMeta(1, 2)
OtherFeedMeta == LogMeta(2, 2)

LeftBehind ==
  [p \in {OldMetaFile, EmptyMetaFile, OtherFeedMetaFile, StrayFile, RowLogFile} |->
     IF p = OldMetaFile THEN MarshalMsg(OldMeta)
     ELSE IF p = OtherFeedMetaFile THEN MarshalMsg(OtherFeedMeta)
     ELSE <<>>]

OnlyFeedFiles == [p \in {OldMetaFile} |-> MarshalMsg(OldMeta)]

\* a third changefeed, with the id of Feed in another namespace
SameIdFeed == [Namespace |-> "n", ID |-> "a"]

\* redo logs at and above the checkpoints bgGC can see, next to RowLogFile
AboveLogFile == LogFileName(CaptureID, Feed, RedoDDLLogFileType, MaxTs, "d")
\* a log whose commitTs piece is no number
BadNameLogFile == Path(<<CaptureID, "default", "a", RedoRowLogFileType, "zz", "u">>, LogEXT)
OtherFeedLogFile == LogFileName(CaptureID, OtherFeed, RedoRowLogFileType, 0, "o")
SameIdLogFile == LogFileName(CaptureID, SameIdFeed, RedoRowLogFileType, 0, "m")

\* a storage root that bgGC sweeps
LogRoot ==
  [p \in {RowLogFile, AboveLogFile, BadNameLogFile, OtherFeedLogFile} |-> <<>>]

\* a root left by a Cleanup that died once its mark was written, shared
\* with the two other changefeeds
MarkedRoot ==
  [p \in DOMAIN LogRoot \cup {SameIdLogFile, getDeletedChangefeedMarker(Feed)} |->
     IF p = getDeletedChangefeedMarker(Feed) THEN <<"D">> ELSE <<>>]

SweepStorages == {LogRoot, MarkedRoot}

InitStorages == {EmptyStorage, OnlyFeedFiles, LeftBehind}

\* the startTs the owner passes to NewMetaManagerWithInit: none, the least
\* and the greatest timestamp
StartTsSet == {0, 1, MaxTs}

(***************************************************************************)
(* State.                                                                  *)
(***************************************************************************)
VARIABLES
  storage,            \* extStorage: path -> bytes
  metaCheckpointTs,   \* statefulRts
  metaResolvedTs,     \* statefulRts
  preMetaFile,        \* the meta file written by the last flush, or NoFile
  ownerPc,            \* where the owner goroutine is
  startTs,            \* argument of NewMetaManagerWithInit
  toRemoveMetaFiles,  \* initMeta: the meta files found by the walk
  sweepList,          \* RemoveFilesIf of preCleanup / Cleanup: the files listed
  updArgs,            \* UpdateMeta: the arguments of the call in progress
  getCheckpointTs,    \* GetFlushedMeta: the checkpointTs already loaded
  flushPc,            \* where maybeFlushMeta is
  flushCaller,        \* "init" (initMeta) or "bg" (bgFlushMeta)
  flushFlushed,       \* prepareForFlushMeta: local flushed
  flushUnflushed,     \* prepareForFlushMeta: local unflushed, then flush's meta
  metaFile,           \* flush: the new file's name
  gcPc,               \* where bgGC is
  preCkpt,            \* bgGC: the checkpoint of the last sweep
  gcDeleted,          \* the files bgGC deleted (history)
  gcSweeps,           \* the RemoveFilesIf calls of bgGC: <<preCkpt before, ckpt>> (history)
  egCtxDone,          \* the error group's context is cancelled
  egErr,              \* errgroup of Run: the first error a loop returned, "nil" when none
  flushRet,           \* what bgFlushMeta returned, "none" while it has not
  runCtxDone,         \* the context handed to metaManager.Run is cancelled
  deleteRes,          \* flush: what DeleteFile(preMetaFile) returned, "none" outside
  mgrRet,             \* what metaManager.Run returned, "none" while it has not
  extNil,             \* m.extStorage == nil (blackhole storage, or redo disabled)
  crashes,            \* crashes so far
  \* history, read by no action
  lastRet,            \* what the last GetFlushedMeta returned
  retMax,             \* fieldwise maximum of what GetFlushedMeta returned
  crashRet,           \* the same, over the processes that crashed
  written,            \* the LogMeta values whose WriteFile succeeded
  published,          \* the pairs a complete postFlushMeta made the flushed pair
  initWalk,           \* initMeta: the files its walk listed and the storage it read (until Run)
  lastInit,           \* startTs and flushed pair of the last initMeta that returned nil
  wroteSince,         \* a meta file was written since lastInit was recorded, by
                      \* bgFlushMeta or by an initMeta that did not return nil
  cleanupCalled,      \* Cleanup was called on this storage root
  cleanupRet          \* what Cleanup returned: "none", "nil" or "err"

memVars == <<metaCheckpointTs, metaResolvedTs, preMetaFile>>
ownerVars == <<ownerPc, startTs, toRemoveMetaFiles, sweepList, updArgs, getCheckpointTs>>
flushVars == <<flushPc, flushCaller, flushFlushed, flushUnflushed, metaFile, deleteRes>>
gcVars == <<gcPc, preCkpt, gcDeleted, gcSweeps>>
histVars == <<lastRet, retMax, crashRet, written, published, initWalk, lastInit, wroteSince,
              cleanupCalled, cleanupRet>>
egCtxVars == <<egCtxDone, egErr, flushRet, runCtxDone>>
metaVars == <<storage, memVars, ownerVars, flushVars, gcVars, egCtxVars, mgrRet, extNil,
              crashes, histVars>>

(***************************************************************************)
(* captureImpl, the coordination store it talks to, and one peer capture   *)
(* seen through the store.                                                 *)
(***************************************************************************)
VARIABLES
  leases,             \* store: the session leases that are alive
  electionKeys,       \* store: the candidates' keys under the owner key, oldest first
  elected,            \* the leases whose campaign returned nil and whose key is still there
  captureInfos,       \* store: the pairs <<capture id, lease it is attached to>>
  peerPc,             \* the peer capture: "idle", "waiting", "leader" (its campaign
                      \* returned nil), "owner" (it has installed its owner) or "gone"
  parentDone,         \* the context handed to Run is cancelled
  cancelled,          \* c.cancel() was called on the context of this iteration
  runPc,              \* where Run / run is
  info,               \* c.info.ID, 0 before the first reset
  session,            \* the lease of c.session, 0 before the first reset
  liveness,           \* c.liveness
  owner,              \* c.owner: "nil" or "owner"
  ownerStopped,       \* AsyncStop was called on the owner of this campaign
  coPc,               \* where the campaignOwner routine is
  coErr,              \* what campaignOwner returned
  reactorErr,         \* what runEtcdWorker returned for the owner
  othPc,              \* the processor and message server routines
  grpErr,             \* errgroup: the first error a routine returned
  runErr,             \* what run returned
  runRet,             \* what Run returned, "none" while it runs
  drainPc,            \* where Drain and its goroutine are
  \* history, read by no action
  usedIds,            \* the capture ids generated so far
  registered,         \* the id this iteration registered, 0 when none
  deleteAttempt,      \* the id of the last DeleteCaptureInfo call, 0 when none
  resignCall,         \* the last c.resign call of this campaignOwner call: <<context, result>>
  messageRouter,      \* c.MessageRouter: "nil" or "router"
  hookFound           \* what the last call of a capture hook found in c.MessageRouter,
                      \* "none" before the first call (history)

storeVars == <<leases, electionKeys, elected, captureInfos, peerPc>>
runVars == <<parentDone, cancelled, runPc, info, session, othPc, grpErr, runErr, runRet>>
campaignVars == <<owner, ownerStopped, coPc, coErr, reactorErr>>
capHistVars == <<usedIds, registered, deleteAttempt, resignCall>>
routerVars == <<messageRouter, hookFound>>
capVars == <<storeVars, runVars, campaignVars, liveness, drainPc, capHistVars, routerVars>>

(***************************************************************************)
(* The rate limiter of captureImpl.Run, with the clock it reads, and the   *)
(* codec Config handed to Validate.                                        *)
(***************************************************************************)
VARIABLES
  limTokens,          \* rate.Limiter: the tokens in the bucket, in 1/TicksPerWindow
  limWindow,          \* the run iterations started in each of the last clock ticks
  codecCfg,           \* the Config before the call
  codecRet,           \* what Validate returned: "none" before, "nil", or the error
  codecAfter          \* the Config after the call

limiterVars == <<limTokens, limWindow>>
codecVars == <<codecCfg, codecRet, codecAfter>>
otherVars == <<limiterVars, codecVars>>

vars == <<metaVars, capVars, otherVars>>

NoMeta == LogMeta(0, 0)
NoConfig == [Protocol |-> ""]
NoInit == [startTs |-> 0, meta |-> NoMeta]
NoWalk == [listed |-> {}, storage |-> EmptyStorage]

\* the memory of a process that has just started
FreshProcess ==
  /\ metaCheckpointTs = StatefulRts(0, 0)
  /\ metaResolvedTs = StatefulRts(0, 0)
  /\ preMetaFile = NoFile
  /\ ownerPc = "new"
  /\ startTs = 0
  /\ toRemoveMetaFiles = {}
  /\ sweepList = {}
  /\ updArgs = NoMeta
  /\ getCheckpointTs = 0
  /\ flushPc = "off"
  /\ flushCaller = "init"
  /\ flushFlushed = NoMeta
  /\ flushUnflushed = NoMeta
  /\ metaFile = NoFile
  /\ gcPc = "off"
  /\ preCkpt = 0
  /\ gcDeleted = {}
  /\ gcSweeps = {}
  /\ egCtxDone = FALSE
  /\ egErr = "nil"
  /\ flushRet = "none"
  /\ runCtxDone = FALSE
  /\ deleteRes = "none"
  /\ mgrRet = "none"
  /\ lastRet = NoMeta
  /\ retMax = NoMeta
  /\ written = {}
  /\ published = {NoMeta}
  /\ initWalk = NoWalk
  /\ cleanupRet = "none"

\* capture ids and lease ids are numbered by the reset that made them; the
\* peer's lease is a number no reset reaches
PeerLease == 100

NoResign == <<"none", "none">>

\* NewCapture: liveness Alive, no info, no session, cancel a no-op, and a
\* store in which nobody campaigns yet
NewCapture ==
  /\ leases = {PeerLease}
  /\ electionKeys = <<>>
  /\ elected = {}
  /\ captureInfos = {}
  /\ peerPc = "idle"
  /\ parentDone = FALSE
  /\ cancelled = FALSE
  /\ runPc = "idle"
  /\ info = 0
  /\ session = 0
  /\ liveness = "Alive"
  /\ owner = "nil"
  /\ ownerStopped = FALSE
  /\ coPc = "off"
  /\ coErr = "nil"
  /\ reactorErr = "nil"
  /\ othPc = "off"
  /\ grpErr = "nil"
  /\ runErr = "nil"
  /\ runRet = "none"
  /\ drainPc = "idle"
  /\ usedIds = {}
  /\ registered = 0
  /\ deleteAttempt = 0
  /\ resignCall = NoResign
  /\ messageRouter = "nil"
  /\ hookFound = "none"

\* the limiter and the codec Config, where they take no part
IdleOthers ==
  /\ limTokens = 0
  /\ limWindow = <<>>
  /\ codecCfg = NoConfig
  /\ codecRet = "none"
  /\ codecAfter = NoConfig

Init ==
  /\ storage \in InitStorages
  /\ extNil = FALSE
  /\ NewCapture
  /\ FreshProcess
  /\ IdleOthers
  /\ crashes = 0
  /\ crashRet = NoMeta
  /\ lastInit = NoInit
  /\ wroteSince = FALSE
  /\ cleanupCalled = FALSE

(***************************************************************************)
(* uuidGenerator.NewString(): a name no file has and nothing remembers.    *)
(* The uuid is the least number not in use, so that two runs that differ   *)
(* only in the random names are one run of the model.                      *)
(***************************************************************************)
UsedPaths ==
  Files(storage) \cup toRemoveMetaFiles \cup sweepList
    \cup {preMetaFile, metaFile}

NewString ==
  CHOOSE n \in 1..(Cardinality(UsedPaths) + 1) :
    /\ getMetafileName(CaptureID, Feed, n) \notin UsedPaths
    /\ \A k \in 1..(n - 1) : getMetafileName(CaptureID, Feed, k) \in UsedPaths

(***************************************************************************)
(* NewMetaManagerWithInit: preCleanupExtStorage, then initMeta.            *)
(***************************************************************************)
NewMetaManagerWithInit ==
  /\ ownerPc = "new"
  /\ \E ts \in StartTsSet : startTs' = ts
  /\ ownerPc' = IF extNil THEN "constructed" ELSE "preCleanup"
  /\ UNCHANGED <<storage, memVars, toRemoveMetaFiles, sweepList, updArgs,
                 getCheckpointTs, flushVars, gcVars, egCtxVars, crashes, histVars>>
  /\ UNCHANGED <<mgrRet, extNil, capVars, otherVars>>

\* the predicate preCleanupExtStorage and deleteAllLogs hand to RemoveFilesIf
SweepFilter(path) ==
  LET deleteMarker == getDeletedChangefeedMarker(Feed)
      changefeedMatcher == getChangefeedMatcher(Feed)
  IN  IF path = deleteMarker \/ ~Contains(path, changefeedMatcher)
        THEN FALSE
        ELSE TRUE

\* FileExists(deleteMarker): without the marker there is nothing to clean
PreCleanupCheck ==
  /\ ownerPc = "preCleanup"
  /\ ownerPc' = IF getDeletedChangefeedMarker(Feed) \in Files(storage)
                  THEN "preCleanupWalk" ELSE "initMeta"
  /\ UNCHANGED <<storage, memVars, startTs, toRemoveMetaFiles, sweepList, updArgs,
                 getCheckpointTs, flushVars, gcVars, egCtxVars, crashes, histVars>>
  /\ UNCHANGED <<mgrRet, extNil, capVars, otherVars>>

\* RemoveFilesIf, first half: the walk lists the files to remove
PreCleanupWalk ==
  /\ ownerPc = "preCleanupWalk"
  /\ sweepList' = {p \in Files(storage) : SweepFilter(p)}
  /\ ownerPc' = "preCleanupDelete"
  /\ UNCHANGED <<storage, memVars, startTs, toRemoveMetaFiles, updArgs,
                 getCheckpointTs, flushVars, gcVars, egCtxVars, crashes, histVars>>
  /\ UNCHANGED <<mgrRet, extNil, capVars, otherVars>>

\* faulty variant: the error of RemoveFilesIf is dropped and the mark is
\* deleted all the same
PreCleanupDelete_ErrorDropped ==
  /\ ownerPc = "preCleanupDelete"
  /\ \E done \in SUBSET sweepList : storage' = DeleteFiles(storage, done)
  /\ ownerPc' = "preCleanupMarker"
  /\ sweepList' = {}
  /\ UNCHANGED <<memVars, startTs, toRemoveMetaFiles, updArgs,
                 getCheckpointTs, flushVars, gcVars, egCtxVars, crashes, histVars>>
  /\ UNCHANGED <<mgrRet, extNil, capVars, otherVars>>

\* RemoveFilesIf, second half: the listed files are deleted; when a delete
\* fails some of them are gone and the constructor returns the error
PreCleanupDelete ==
  /\ ownerPc = "preCleanupDelete"
  /\ \/ /\ storage' = DeleteFiles(storage, sweepList)
        /\ ownerPc' = "preCleanupMarker"
     \/ /\ \E done \in SUBSET sweepList :
             /\ done # sweepList
             /\ storage' = DeleteFiles(storage, done)
        /\ ownerPc' = "failed"
  /\ sweepList' = {}
  /\ UNCHANGED <<memVars, startTs, toRemoveMetaFiles, updArgs,
                 getCheckpointTs, flushVars, gcVars, egCtxVars, crashes, histVars>>
  /\ UNCHANGED <<mgrRet, extNil, capVars, otherVars>>

\* DeleteFile(deleteMarker), a missing marker is not an error
PreCleanupMarker ==
  /\ ownerPc = "preCleanupMarker"
  /\ \/ /\ storage' = DeleteFiles(storage, {getDeletedChangefeedMarker(Feed)})
        /\ ownerPc' = "initMeta"
     \/ /\ ownerPc' = "failed"
        /\ UNCHANGED storage
  /\ UNCHANGED <<memVars, startTs, toRemoveMetaFiles, sweepList, updArgs,
                 getCheckpointTs, flushVars, gcVars, egCtxVars, crashes, histVars>>
  /\ UNCHANGED <<mgrRet, extNil, capVars, otherVars>>

\* the files the WalkDir callback of initMeta does not skip
IsMetaFile(path) == HasSuffix(path, MetaEXT)

\* the LogMeta values the callback appends: one per file that is read and
\* is not empty
ReadMetas(st, paths) ==
  {UnmarshalMsg(st[p]) : p \in {q \in paths \cap Files(st) : Len(st[q]) # 0}}

\* faulty variant: startTs is not put in the list
SeedMetas_Empty(ts) == {}

\* the list initMeta starts from
SeedMetas(ts) == {LogMeta(ts, ts)}

\* faulty variant: initMeta goes on with a zero timestamp
initMetaPanics_Never(parsed) == FALSE

\* initMeta, lines 229-233: checkpointTs == 0 || resolvedTs == 0 -> log.Panic
initMetaPanics(parsed) == parsed.CheckpointTs = 0 \/ parsed.ResolvedTs = 0

\* initMeta up to the forced flush.  Between the listing and the read of a
\* file, its writer (the owner on capture "old", if it is still flushing) may
\* have deleted it: the read then finds nothing.
InitMetaWalk ==
  /\ ownerPc = "initMeta"
  /\ \E gone \in SUBSET {p \in Files(storage) : IsMetaFile(p) /\ p.toks[1] = OldCaptureID} :
       LET listed == {p \in Files(storage) : IsMetaFile(p)}
           st == DeleteFiles(storage, gone)
           read == ReadMetas(st, listed)
           parsed == ParseMeta(SeedMetas(startTs) \cup read)
       IN  /\ storage' = st
           /\ initWalk' = [listed |-> listed, storage |-> st]
           /\ \/ \* ReadFile fails with an error other than not-found
                 /\ ownerPc' = "failed"
                 /\ UNCHANGED <<metaCheckpointTs, metaResolvedTs, toRemoveMetaFiles,
                                flushPc, flushCaller>>
              \/ /\ initMetaPanics(parsed)
                 /\ ownerPc' = "panic"
                 /\ UNCHANGED <<metaCheckpointTs, metaResolvedTs, toRemoveMetaFiles,
                                flushPc, flushCaller>>
              \/ /\ ~initMetaPanics(parsed)
                 /\ toRemoveMetaFiles' = listed
                 /\ metaResolvedTs' = [metaResolvedTs EXCEPT !.unflushed = parsed.ResolvedTs]
                 /\ metaCheckpointTs' = [metaCheckpointTs EXCEPT !.unflushed = parsed.CheckpointTs]
                 /\ ownerPc' = "initFlush"
                 /\ flushPc' = "tick"
                 /\ flushCaller' = "init"
  /\ UNCHANGED <<preMetaFile, startTs, sweepList, updArgs, getCheckpointTs,
                 flushFlushed, flushUnflushed, metaFile, deleteRes, gcVars, egCtxVars,
                 crashes,
                 lastRet, retMax, crashRet, written, published, lastInit, wroteSince,
                 cleanupCalled, cleanupRet>>
  /\ UNCHANGED <<mgrRet, extNil, capVars, otherVars>>

\* faulty variant: the walk runs after the flush and finds the new meta file too
InitMetaToRemove_AfterFlush == toRemoveMetaFiles \cup {preMetaFile}

\* the files initMeta deletes after its flush: those its walk found
InitMetaToRemove == toRemoveMetaFiles

\* DeleteFilesInExtStorage(toRemoveMetaFiles) and the return of the constructor
InitMetaDelete ==
  /\ ownerPc = "initDelete"
  /\ \/ /\ storage' = DeleteFiles(storage, InitMetaToRemove)
        /\ ownerPc' = "constructed"
        /\ lastInit' = [startTs |-> startTs,
                        meta |-> LogMeta(metaCheckpointTs.flushed, metaResolvedTs.flushed)]
        /\ wroteSince' = FALSE
     \/ /\ \E done \in SUBSET toRemoveMetaFiles :
             /\ done # toRemoveMetaFiles
             /\ storage' = DeleteFiles(storage, done)
        /\ ownerPc' = "failed"
        /\ UNCHANGED <<lastInit, wroteSince>>
  /\ toRemoveMetaFiles' = {}
  /\ UNCHANGED <<memVars, startTs, sweepList, updArgs, getCheckpointTs, flushVars,
                 gcVars, egCtxVars, crashes, lastRet, retMax, crashRet, written, published,
                 initWalk, cleanupCalled, cleanupRet>>
  /\ UNCHANGED <<mgrRet, extNil, capVars, otherVars>>

\* Run: starts bgFlushMeta and bgGC.  A process started after a crash is
\* followed to the end of its constructor.
\* faulty variant: Run starts the two loops whatever the storage is
RunStartsLoops_Always(nil) == TRUE

\* Run, line 144: the loops are started unless m.extStorage == nil
RunStartsLoops(nil) == ~nil

\* Run: with no storage it returns nil at once, otherwise the error group
\* starts bgFlushMeta and bgGC
Run ==
  /\ ownerPc = "constructed"
  /\ crashes = 0
  /\ ownerPc' = "ready"
  /\ IF RunStartsLoops(extNil)
       THEN /\ flushPc' = "tick"
            /\ flushCaller' = "bg"
            /\ gcPc' = "tick"
            /\ UNCHANGED mgrRet
       ELSE /\ mgrRet' = "nil"
            /\ UNCHANGED <<flushPc, flushCaller, gcPc>>
  /\ initWalk' = NoWalk
  /\ UNCHANGED <<storage, memVars, startTs, toRemoveMetaFiles, sweepList, updArgs,
                 getCheckpointTs, flushFlushed, flushUnflushed, metaFile, deleteRes, preCkpt,
                 gcDeleted, gcSweeps, egCtxVars, crashes, lastRet, retMax, crashRet, written, published,
                 lastInit, wroteSince, cleanupCalled, cleanupRet>>
  /\ UNCHANGED <<extNil, capVars, otherVars>>

\* the context handed to Run is cancelled while the loops run: the context
\* of the error group, derived from it, is cancelled with it
RunCtxCancel ==
  /\ gcPc # "off"
  /\ mgrRet = "none"
  /\ ~runCtxDone
  /\ runCtxDone' = TRUE
  /\ egCtxDone' = TRUE
  /\ UNCHANGED <<storage, memVars, ownerVars, flushVars, gcVars, egErr, flushRet, crashes,
                 histVars>>
  /\ UNCHANGED <<mgrRet, extNil, capVars, otherVars>>

\* faulty variant: Run returns as soon as one loop has returned
RunMayReturn_FirstExit == flushPc = "exited" \/ gcPc = "exited"

\* eg.Wait(): both loops have returned
RunMayReturn == flushPc = "exited" /\ gcPc = "exited"

\* Run returns what eg.Wait() returns: the first error of the two loops
RunReturn ==
  /\ mgrRet = "none"
  /\ RunMayReturn
  /\ mgrRet' = egErr
  /\ UNCHANGED <<storage, memVars, ownerVars, flushVars, gcVars, egCtxVars, crashes,
                 histVars>>
  /\ UNCHANGED <<extNil, capVars, otherVars>>

(***************************************************************************)
(* maybeFlushMeta, called by initMeta (flushCaller = "init") and by every  *)
(* tick of bgFlushMeta (flushCaller = "bg").                               *)
(***************************************************************************)
\* prepareForFlushMeta: hasChange
HasChange(flushed, unflushed) ==
  \/ flushed.CheckpointTs < unflushed.CheckpointTs
  \/ flushed.ResolvedTs < unflushed.ResolvedTs

\* errgroup: only the first error of a routine is kept
FirstErr(old, e) == IF old = "nil" THEN e ELSE old

\* maybeFlushMeta returns nil to its caller
FlushReturnsNil ==
  IF flushCaller = "init"
    THEN /\ flushPc' = "off"
         /\ ownerPc' = "initDelete"
         /\ UNCHANGED egCtxVars
    ELSE /\ flushPc' = "tick"
         /\ UNCHANGED <<ownerPc, egCtxVars>>

\* maybeFlushMeta returns an error: initMeta fails, bgFlushMeta returns it
\* and the error group cancels its context
FlushReturnsErr(err) ==
  IF flushCaller = "init"
    THEN /\ flushPc' = "off"
         /\ ownerPc' = "failed"
         /\ UNCHANGED egCtxVars
    ELSE /\ flushPc' = "exited"
         /\ flushRet' = err
         /\ egErr' = FirstErr(egErr, err)
         /\ egCtxDone' = TRUE
         /\ UNCHANGED <<ownerPc, runCtxDone>>

\* faulty variant: bgFlushMeta watches the context Run was handed, not the
\* one of the error group
bgFlushCtxDone_Parent == runCtxDone

\* bgFlushMeta, line 423: case <-egCtx.Done()
bgFlushCtxDone == egCtxDone

\* bgFlushMeta sees the cancelled context and returns
FlushExit ==
  /\ flushPc = "tick"
  /\ flushCaller = "bg"
  /\ bgFlushCtxDone
  /\ flushPc' = "exited"
  /\ flushRet' = "Canceled"
  /\ egErr' = FirstErr(egErr, "Canceled")
  /\ UNCHANGED <<storage, memVars, ownerVars, flushCaller, deleteRes, flushFlushed, flushUnflushed,
                 metaFile, gcVars, egCtxDone, runCtxDone, crashes, histVars>>
  /\ UNCHANGED <<mgrRet, extNil, capVars, otherVars>>

\* prepareForFlushMeta, the loads of flushed and of the unflushed checkpointTs.
\* Only the goroutine that flushes stores the flushed fields, so its own
\* loads of them are one step.
PrepareLoadCheckpoint ==
  /\ flushPc = "tick"
  /\ flushCaller = "bg" => ~bgFlushCtxDone
  /\ flushFlushed' = LogMeta(metaCheckpointTs.flushed, metaResolvedTs.flushed)
  /\ flushUnflushed' = LogMeta(metaCheckpointTs.unflushed, 0)
  /\ flushPc' = "prepare"
  /\ UNCHANGED <<storage, memVars, ownerVars, flushCaller, deleteRes, metaFile, gcVars, egCtxVars,
                 crashes, histVars>>
  /\ UNCHANGED <<mgrRet, extNil, capVars, otherVars>>

\* prepareForFlushMeta, the load of the unflushed resolvedTs, and the test
\* of hasChange in maybeFlushMeta
PrepareLoadResolved ==
  /\ flushPc = "prepare"
  /\ LET unflushed == LogMeta(flushUnflushed.CheckpointTs, metaResolvedTs.unflushed)
     IN  IF HasChange(flushFlushed, unflushed)
           THEN /\ flushUnflushed' = unflushed
                /\ flushFlushed' = NoMeta
                /\ flushPc' = "flush"
                /\ UNCHANGED <<ownerPc, egCtxVars>>
           ELSE /\ flushUnflushed' = NoMeta
                /\ flushFlushed' = NoMeta
                /\ FlushReturnsNil
  /\ UNCHANGED <<storage, memVars, startTs, toRemoveMetaFiles, sweepList, updArgs,
                 getCheckpointTs, flushCaller, deleteRes, metaFile, gcVars, crashes, histVars>>
  /\ UNCHANGED <<mgrRet, extNil, capVars, otherVars>>

\* flush: MarshalMsg and WriteFile of a new meta file
FlushWrite ==
  /\ flushPc = "flush"
  /\ LET name == getMetafileName(CaptureID, Feed, NewString)
     IN  \/ /\ storage' = WriteFile(storage, name, MarshalMsg(flushUnflushed))
            /\ written' = written \cup {flushUnflushed}
            /\ wroteSince' = (wroteSince \/ flushCaller = "bg")
            /\ metaFile' = name
            /\ flushPc' = "flushDelete"
            /\ UNCHANGED <<ownerPc, egCtxVars, flushUnflushed>>
         \/ /\ FlushReturnsErr("WriteFile")
            /\ flushUnflushed' = NoMeta
            /\ UNCHANGED <<storage, written, wroteSince, metaFile>>
  /\ UNCHANGED <<published, memVars, startTs, toRemoveMetaFiles, sweepList, updArgs, getCheckpointTs,
                 flushCaller, deleteRes, flushFlushed, gcVars, crashes, lastRet, retMax, crashRet,
                 initWalk, lastInit, cleanupCalled, cleanupRet>>
  /\ UNCHANGED <<mgrRet, extNil, capVars, otherVars>>

\* faulty variant: the previous meta file is never deleted
DeletePreMetaFile_Skipped(st, pre) == st

\* flush: m.extStorage.DeleteFile(ctx, m.preMetaFile), not-found is ignored
DeletePreMetaFile(st, pre) == DeleteFiles(st, {pre})

\* what DeleteFile can return for a path: nil, the not-found error of the
\* storage when the file is not there, or another error
DeleteFileResults(st, pre) ==
  IF pre \in Files(st) THEN {"nil", "err"} ELSE {"NotExist", "err"}

\* util.IsNotExistInExtStorage
IsNotExistInExtStorage(err) == err = "NotExist"

\* faulty variant: a previous meta file that is not there fails the flush
flushDeleteFails_NotFoundToo(err) == err # "nil"

\* flush: err != nil && !util.IsNotExistInExtStorage(err)
flushDeleteFails(err) == err # "nil" /\ ~IsNotExistInExtStorage(err)

\* flush: DeleteFile(preMetaFile) and preMetaFile = metaFile
FlushDeletePre ==
  /\ flushPc = "flushDelete"
  /\ metaFile' = NoFile
  /\ IF preMetaFile = NoFile
       THEN /\ preMetaFile' = metaFile
            /\ flushPc' = "postResolved"
            /\ UNCHANGED <<storage, ownerPc, egCtxVars, flushUnflushed, deleteRes>>
       ELSE IF preMetaFile = metaFile
       THEN \* a constant uuid generator: flush returns nil at once
            /\ flushPc' = "postResolved"
            /\ UNCHANGED <<storage, preMetaFile, ownerPc, egCtxVars, flushUnflushed,
                           deleteRes>>
       ELSE \E err \in DeleteFileResults(storage, preMetaFile) :
              /\ deleteRes' = err
              /\ IF flushDeleteFails(err)
                   THEN /\ FlushReturnsErr("DeleteFile")
                        /\ flushUnflushed' = NoMeta
                        /\ UNCHANGED <<storage, preMetaFile>>
                   ELSE /\ storage' = IF err = "nil"
                                        THEN DeletePreMetaFile(storage, preMetaFile)
                                        ELSE storage
                        /\ preMetaFile' = metaFile
                        /\ flushPc' = "postResolved"
                        /\ UNCHANGED <<ownerPc, egCtxVars, flushUnflushed>>
  /\ UNCHANGED <<metaCheckpointTs, metaResolvedTs, startTs, toRemoveMetaFiles, sweepList,
                 updArgs, getCheckpointTs, flushCaller, flushFlushed, gcVars, crashes,
                 histVars>>
  /\ UNCHANGED <<mgrRet, extNil, capVars, otherVars>>

\* postFlushMeta: m.metaResolvedTs.setFlushed(meta.ResolvedTs)
PostFlushResolved ==
  /\ flushPc = "postResolved"
  /\ metaResolvedTs' = setFlushed(metaResolvedTs, flushUnflushed.ResolvedTs)
  /\ flushPc' = "postCheckpoint"
  /\ deleteRes' = "none"
  /\ UNCHANGED <<storage, metaCheckpointTs, preMetaFile, ownerVars, flushCaller,
                 flushFlushed, flushUnflushed, metaFile, gcVars, egCtxVars, crashes,
                 histVars>>
  /\ UNCHANGED <<mgrRet, extNil, capVars, otherVars>>

\* postFlushMeta: m.metaCheckpointTs.setFlushed(meta.CheckpointTs); return nil
PostFlushCheckpoint ==
  /\ flushPc = "postCheckpoint"
  /\ metaCheckpointTs' = setFlushed(metaCheckpointTs, flushUnflushed.CheckpointTs)
  /\ flushUnflushed' = NoMeta
  /\ FlushReturnsNil
  /\ published' = published \cup {flushUnflushed}
  /\ UNCHANGED <<storage, metaResolvedTs, preMetaFile, startTs, toRemoveMetaFiles,
                 sweepList, updArgs, getCheckpointTs, flushCaller, deleteRes, flushFlushed, metaFile,
                 gcVars, crashes, lastRet, retMax, crashRet, written, initWalk, lastInit,
                 wroteSince, cleanupCalled, cleanupRet>>
  /\ UNCHANGED <<mgrRet, extNil, capVars, otherVars>>

(***************************************************************************)
(* The owner's calls on a running manager.                                 *)
(***************************************************************************)
\* faulty variant: the regression check on resolvedTs is lost
UpdateResolved_NoCheck(rts, resolvedTs) == [rts EXCEPT !.unflushed = resolvedTs]

\* UpdateMeta, first statement: metaResolvedTs.checkAndSetUnflushed(resolvedTs)
UpdateResolved(rts, resolvedTs) == checkAndSetUnflushed(rts, resolvedTs)

\* faulty variant: the regression check on checkpointTs is lost
UpdateCheckpoint_NoCheck(ckpt, checkpointTs) == [ckpt EXCEPT !.unflushed = checkpointTs]

\* UpdateMeta, second statement: metaCheckpointTs.checkAndSetUnflushed(checkpointTs);
\* it runs whatever the first one returned
UpdateCheckpoint(ckpt, checkpointTs) == checkAndSetUnflushed(ckpt, checkpointTs)

UpdateMetaResolved ==
  /\ ownerPc = "ready"
  /\ \E checkpointTs \in 1..MaxTs, resolvedTs \in 1..MaxTs :
       /\ updArgs' = LogMeta(checkpointTs, resolvedTs)
       /\ metaResolvedTs' = UpdateResolved(metaResolvedTs, resolvedTs)
  /\ ownerPc' = "UpdateMeta"
  /\ UNCHANGED <<storage, metaCheckpointTs, preMetaFile, startTs, toRemoveMetaFiles,
                 sweepList, getCheckpointTs, flushVars, gcVars, egCtxVars, crashes,
                 histVars>>
  /\ UNCHANGED <<mgrRet, extNil, capVars, otherVars>>

\* faulty variant: UpdateMeta returns when resolvedTs regressed, before it looks at
\* checkpointTs
UpdateMetaCheckpoint_EarlyReturn ==
  /\ ownerPc = "UpdateMeta"
  /\ metaCheckpointTs' = IF updArgs.ResolvedTs < metaResolvedTs.unflushed
                            THEN metaCheckpointTs
                            ELSE UpdateCheckpoint(metaCheckpointTs, updArgs.CheckpointTs)
  /\ ownerPc' = "ready"
  /\ UNCHANGED <<storage, metaResolvedTs, preMetaFile, startTs, toRemoveMetaFiles,
                 sweepList, updArgs, getCheckpointTs, flushVars, gcVars, egCtxVars,
                 crashes, histVars>>
  /\ UNCHANGED <<mgrRet, extNil, capVars, otherVars>>

UpdateMetaCheckpoint ==
  /\ ownerPc = "UpdateMeta"
  /\ metaCheckpointTs' = UpdateCheckpoint(metaCheckpointTs, updArgs.CheckpointTs)
  /\ ownerPc' = "ready"
  /\ UNCHANGED <<storage, metaResolvedTs, preMetaFile, startTs, toRemoveMetaFiles,
                 sweepList, updArgs, getCheckpointTs, flushVars, gcVars, egCtxVars,
                 crashes, histVars>>
  /\ UNCHANGED <<mgrRet, extNil, capVars, otherVars>>

\* GetFlushedMeta: checkpointTs := m.metaCheckpointTs.getFlushed()
GetFlushedCheckpoint ==
  /\ ownerPc = "ready"
  /\ getCheckpointTs' = metaCheckpointTs.flushed
  /\ ownerPc' = "GetFlushedMeta"
  /\ UNCHANGED <<storage, memVars, startTs, toRemoveMetaFiles, sweepList, updArgs,
                 flushVars, gcVars, egCtxVars, crashes, histVars>>
  /\ UNCHANGED <<mgrRet, extNil, capVars, otherVars>>

\* GetFlushedMeta: resolvedTs := m.metaResolvedTs.getFlushed(); return
GetFlushedResolved ==
  /\ ownerPc = "GetFlushedMeta"
  /\ lastRet' = LogMeta(getCheckpointTs, metaResolvedTs.flushed)
  /\ retMax' = LogMeta(Max(retMax.CheckpointTs, lastRet'.CheckpointTs),
                       Max(retMax.ResolvedTs, lastRet'.ResolvedTs))
  /\ getCheckpointTs' = 0
  /\ ownerPc' = "ready"
  /\ UNCHANGED <<storage, memVars, startTs, toRemoveMetaFiles, sweepList, updArgs,
                 flushVars, gcVars, egCtxVars, crashes, crashRet, written, published, initWalk,
                 lastInit, wroteSince, cleanupCalled, cleanupRet>>
  /\ UNCHANGED <<mgrRet, extNil, capVars, otherVars>>

\* faulty variant: the error of the marker's WriteFile is dropped and the
\* files are cleaned all the same
CleanupWriteMarker_ErrorIgnored ==
  /\ ownerPc = "ready"
  /\ cleanupCalled' = TRUE
  /\ IF extNil
       THEN \* deleteAllLogs, line 299: nothing to clean
            /\ ownerPc' = "cleaned"
            /\ cleanupRet' = "nil"
            /\ UNCHANGED storage
       ELSE \/ /\ storage' = WriteFile(storage, getDeletedChangefeedMarker(Feed), <<"D">>)
               /\ ownerPc' = "cleanupWalk"
               /\ UNCHANGED cleanupRet
            \/ /\ ownerPc' = "cleanupWalk"
               /\ UNCHANGED <<storage, cleanupRet>>
  /\ UNCHANGED <<memVars, startTs, toRemoveMetaFiles, sweepList, updArgs, getCheckpointTs,
                 flushVars, gcVars, egCtxVars, crashes, lastRet, retMax, crashRet,
                 written, published, initWalk, lastInit, wroteSince>>
  /\ UNCHANGED <<mgrRet, extNil, capVars, otherVars>>

\* Cleanup -> deleteAllLogs: the deleted mark is written before any file is
\* cleaned; a failed write is returned
CleanupWriteMarker ==
  /\ ownerPc = "ready"
  /\ cleanupCalled' = TRUE
  /\ IF extNil
       THEN \* deleteAllLogs, line 299: nothing to clean
            /\ ownerPc' = "cleaned"
            /\ cleanupRet' = "nil"
            /\ UNCHANGED storage
       ELSE \/ /\ storage' = WriteFile(storage, getDeletedChangefeedMarker(Feed), <<"D">>)
               /\ ownerPc' = "cleanupWalk"
               /\ UNCHANGED cleanupRet
            \/ /\ ownerPc' = "cleaned"
               /\ cleanupRet' = "err"
               /\ UNCHANGED storage
  /\ UNCHANGED <<memVars, startTs, toRemoveMetaFiles, sweepList, updArgs, getCheckpointTs,
                 flushVars, gcVars, egCtxVars, crashes, lastRet, retMax, crashRet,
                 written, published, initWalk, lastInit, wroteSince>>
  /\ UNCHANGED <<mgrRet, extNil, capVars, otherVars>>

\* RemoveFilesIf of deleteAllLogs, the walk
CleanupWalk ==
  /\ ownerPc = "cleanupWalk"
  /\ sweepList' = {p \in Files(storage) : SweepFilter(p)}
  /\ ownerPc' = "cleanupDelete"
  /\ UNCHANGED <<storage, memVars, startTs, toRemoveMetaFiles, updArgs, getCheckpointTs,
                 flushVars, gcVars, egCtxVars, crashes, histVars>>
  /\ UNCHANGED <<mgrRet, extNil, capVars, otherVars>>

\* RemoveFilesIf of deleteAllLogs, the deletes, and the return of Cleanup
CleanupDelete ==
  /\ ownerPc = "cleanupDelete"
  /\ \/ /\ storage' = DeleteFiles(storage, sweepList)
        /\ cleanupRet' = "nil"
     \/ /\ \E done \in SUBSET sweepList :
             /\ done # sweepList
             /\ storage' = DeleteFiles(storage, done)
        /\ cleanupRet' = "err"
  /\ sweepList' = {}
  /\ ownerPc' = "cleaned"
  /\ UNCHANGED <<memVars, startTs, toRemoveMetaFiles, updArgs, getCheckpointTs,
                 flushVars, gcVars, egCtxVars, crashes, lastRet, retMax, crashRet,
                 written, published, initWalk, lastInit, wroteSince, cleanupCalled>>
  /\ UNCHANGED <<mgrRet, extNil, capVars, otherVars>>

(***************************************************************************)
(* bgGC.                                                                   *)
(***************************************************************************)
\* strconv.ParseUint of a piece of a file name; -1 when it is no number
ParseTs(tok) ==
  IF \E n \in 0..(MaxTs + 1) : ToString(n) = tok
    THEN CHOOSE n \in 0..(MaxTs + 1) : ToString(n) = tok
    ELSE -1

\* redo.ParseLogFileName: <capture>_<namespace>_<feed>_<type>_<commitTs>_<uuid>
ParseLogFileName(path) ==
  LET n == Len(path.toks)
  IN  IF n >= 6 /\ ParseTs(path.toks[n - 1]) >= 0
        THEN [ok |-> TRUE, commitTs |-> ParseTs(path.toks[n - 1]),
              fileType |-> path.toks[n - 2]]
        ELSE [ok |-> FALSE, commitTs |-> 0, fileType |-> ""]

\* faulty variant: a log at the checkpoint is removed too
shouldRemoved_AtCheckpoint(path, checkPointTs) ==
  LET changefeedMatcher == getChangefeedMatcher(Feed)
      parsed == ParseLogFileName(path)
  IN  IF ~Contains(path, changefeedMatcher) THEN FALSE
      ELSE IF path.ext # LogEXT THEN FALSE
      ELSE IF ~parsed.ok THEN FALSE
      ELSE parsed.commitTs <= checkPointTs

shouldRemoved(path, checkPointTs) ==
  LET changefeedMatcher == getChangefeedMatcher(Feed)
      parsed == ParseLogFileName(path)
  IN  IF ~Contains(path, changefeedMatcher) THEN FALSE
      ELSE IF path.ext # LogEXT THEN FALSE
      ELSE IF ~parsed.ok THEN FALSE
      ELSE parsed.commitTs < checkPointTs

\* faulty variant: bgGC sweeps below the checkpoint the owner asked for
gcCheckpoint_Unflushed(ckptRts) == ckptRts.unflushed

\* bgGC, line 450: ckpt := m.metaCheckpointTs.getFlushed()
gcCheckpoint(ckptRts) == ckptRts.flushed

\* faulty variant: every tick sweeps
gcSkips_Never(ckpt, pre) == FALSE

\* bgGC, lines 451-453: if ckpt == preCkpt { continue }
gcSkips(ckpt, pre) == ckpt = pre

\* a tick with the flushed checkpoint of the last sweep: continue
GcSkip ==
  /\ gcPc = "tick"
  /\ ~egCtxDone
  /\ gcSkips(gcCheckpoint(metaCheckpointTs), preCkpt)
  /\ UNCHANGED vars

\* a tick with a new flushed checkpoint: preCkpt = ckpt and RemoveFilesIf,
\* which lists the files shouldRemoved accepts and deletes them.  Nothing in
\* the model creates a redo log, so the files listed and the files deleted
\* are the same whatever happens in between: the sweep is one step.  A
\* failing delete leaves some of them, ends bgGC and cancels the group.
GcTick ==
  /\ gcPc = "tick"
  /\ ~egCtxDone
  /\ ~gcSkips(gcCheckpoint(metaCheckpointTs), preCkpt)
  /\ preCkpt' = gcCheckpoint(metaCheckpointTs)
  /\ gcSweeps' = gcSweeps \cup {<<preCkpt, gcCheckpoint(metaCheckpointTs)>>}
  /\ LET ckpt == gcCheckpoint(metaCheckpointTs)
         listed == {p \in Files(storage) : shouldRemoved(p, ckpt)}
     IN  \/ /\ storage' = DeleteFiles(storage, listed)
            /\ gcDeleted' = gcDeleted \cup listed
            /\ UNCHANGED <<gcPc, egCtxVars>>
         \/ /\ \E done \in SUBSET listed :
                 /\ done # listed
                 /\ storage' = DeleteFiles(storage, done)
                 /\ gcDeleted' = gcDeleted \cup done
            /\ gcPc' = "exited"
            /\ egErr' = FirstErr(egErr, "RemoveFilesIf")
            /\ egCtxDone' = TRUE
            /\ UNCHANGED <<flushRet, runCtxDone>>
  /\ UNCHANGED <<memVars, ownerVars, flushVars, crashes, histVars>>
  /\ UNCHANGED <<mgrRet, extNil, capVars, otherVars>>

\* bgGC sees the cancelled context and returns
GcExit ==
  /\ gcPc = "tick"
  /\ egCtxDone
  /\ gcPc' = "exited"
  /\ egErr' = FirstErr(egErr, "Canceled")
  /\ UNCHANGED <<storage, memVars, ownerVars, flushVars, preCkpt, gcDeleted, gcSweeps, egCtxDone,
                 flushRet, runCtxDone, crashes, histVars>>
  /\ UNCHANGED <<mgrRet, extNil, capVars, otherVars>>

(***************************************************************************)
(* The process dies, at any point, and is started again: its memory is     *)
(* lost, the storage stays.                                                *)
(***************************************************************************)
Crash ==
  /\ crashes < MaxCrash
  /\ ownerPc # "new"
  /\ crashes' = crashes + 1
  /\ crashRet' = LogMeta(Max(crashRet.CheckpointTs, retMax.CheckpointTs),
                         Max(crashRet.ResolvedTs, retMax.ResolvedTs))
  /\ metaCheckpointTs' = StatefulRts(0, 0)
  /\ metaResolvedTs' = StatefulRts(0, 0)
  /\ preMetaFile' = NoFile
  /\ ownerPc' = "new"
  /\ startTs' = 0
  /\ toRemoveMetaFiles' = {}
  /\ sweepList' = {}
  /\ updArgs' = NoMeta
  /\ getCheckpointTs' = 0
  /\ flushPc' = "off"
  /\ flushCaller' = "init"
  /\ flushFlushed' = NoMeta
  /\ flushUnflushed' = NoMeta
  /\ metaFile' = NoFile
  /\ gcPc' = "off"
  /\ preCkpt' = 0
  /\ gcDeleted' = {}
  /\ gcSweeps' = {}
  /\ egCtxDone' = FALSE
  /\ egErr' = "nil"
  /\ flushRet' = "none"
  /\ runCtxDone' = FALSE
  /\ deleteRes' = "none"
  /\ mgrRet' = "none"
  /\ lastRet' = NoMeta
  /\ retMax' = NoMeta
  /\ written' = {}
  /\ published' = {NoMeta}
  /\ initWalk' = NoWalk
  /\ cleanupRet' = "none"
  /\ wroteSince' = (wroteSince \/ (ownerPc \in {"initFlush", "initDelete", "failed"}
                                     /\ written # {}))
  /\ UNCHANGED <<storage, lastInit, cleanupCalled, extNil>>
  /\ UNCHANGED <<capVars, otherVars>>

Next ==
  \/ NewMetaManagerWithInit
  \/ PreCleanupCheck
  \/ PreCleanupWalk
  \/ PreCleanupDelete
  \/ PreCleanupMarker
  \/ InitMetaWalk
  \/ InitMetaDelete
  \/ Run
  \/ FlushExit
  \/ PrepareLoadCheckpoint
  \/ PrepareLoadResolved
  \/ FlushWrite
  \/ FlushDeletePre
  \/ PostFlushResolved
  \/ PostFlushCheckpoint
  \/ UpdateMetaResolved
  \/ UpdateMetaCheckpoint
  \/ GetFlushedCheckpoint
  \/ GetFlushedResolved
  \/ CleanupWriteMarker
  \/ CleanupWalk
  \/ CleanupDelete
  \/ GcSkip
  \/ GcTick
  \/ GcExit
  \/ RunCtxCancel
  \/ RunReturn
  \/ Crash

Spec == Init /\ [][Next]_vars

\* the same program on storage roots that hold redo logs of three changefeeds
SweepInit ==
  /\ storage \in SweepStorages
  /\ extNil = FALSE
  /\ NewCapture
  /\ FreshProcess
  /\ IdleOthers
  /\ crashes = 0
  /\ crashRet = NoMeta
  /\ lastInit = NoInit
  /\ wroteSince = FALSE
  /\ cleanupCalled = FALSE

\* GetFlushedMeta changes neither the storage nor a timestamp: the sweeps
\* are followed without it
SweepNext ==
  \/ NewMetaManagerWithInit
  \/ PreCleanupCheck
  \/ PreCleanupWalk
  \/ PreCleanupDelete
  \/ PreCleanupMarker
  \/ InitMetaWalk
  \/ InitMetaDelete
  \/ Run
  \/ FlushExit
  \/ PrepareLoadCheckpoint
  \/ PrepareLoadResolved
  \/ FlushWrite
  \/ FlushDeletePre
  \/ PostFlushResolved
  \/ PostFlushCheckpoint
  \/ UpdateMetaResolved
  \/ UpdateMetaCheckpoint
  \/ CleanupWriteMarker
  \/ CleanupWalk
  \/ CleanupDelete
  \/ GcSkip
  \/ GcTick
  \/ GcExit
  \/ Crash

SweepSpec == SweepInit /\ [][SweepNext]_vars

(***************************************************************************)
(* captureImpl: Run, run, reset, register, campaignOwner, runEtcdWorker,   *)
(* AsyncClose and Drain, with the coordination store and one peer.         *)
(***************************************************************************)
\* number of resets one Run call may perform
MaxIter == 2

\* the context of the current Run iteration (line 750) is done
CtxDone == parentDone \/ cancelled

\* errgroup.WithContext (line 809): the group context is also done once a
\* routine has returned an error
GrpDone == CtxDone \/ grpErr # "nil"

\* a context is "ctx" (the group context) or "Background" (detached)
Done(ctx) == IF ctx = "Background" THEN FALSE ELSE GrpDone

\* Run has been called and has not returned
Running == runPc \notin {"idle", "returned"}

\* ---- coordination store and election ----
InKeys(keys, l) == \E i \in 1..Len(keys) : keys[i] = l

RemoveKey(keys, l) == SelectSeq(keys, LAMBDA k : k # l)

\* faulty variant: any candidate counts as elected
IsLeader_AnyKey(keys, l) == InKeys(keys, l)

\* the owner key is held by the oldest candidate key
IsLeader(keys, l) == Len(keys) > 0 /\ keys[1] = l

InfosWithoutLease(infos, l) == {p \in infos : p[2] # l}

InfosWithoutID(infos, id) == {p \in infos : p[1] # id}

\* what a store request made under a context can fail with
RequestErrs(done) == IF done THEN {"Canceled"} ELSE {"DeadlineExceeded", "Other"}

\* election.resign under a context: nil, or an error
ResignOutcomes(done) == IF done THEN {"Canceled"} ELSE {"nil", "DeadlineExceeded", "Other"}

\* a lease expires or is revoked: its keys, its registrations and its
\* ownership go with it
LeaseExpire ==
  /\ \E l \in leases :
       /\ leases' = leases \ {l}
       /\ electionKeys' = RemoveKey(electionKeys, l)
       /\ elected' = elected \ {l}
       /\ captureInfos' = InfosWithoutLease(captureInfos, l)
       /\ peerPc' = IF l = PeerLease THEN "gone" ELSE peerPc
  /\ Running
  /\ UNCHANGED <<runVars, campaignVars, liveness, drainPc, capHistVars>>
  /\ UNCHANGED <<metaVars, otherVars, routerVars>>

PeerCampaign ==
  /\ peerPc = "idle"
  /\ Running
  /\ PeerLease \in leases
  /\ electionKeys' = Append(electionKeys, PeerLease)
  /\ peerPc' = "waiting"
  /\ UNCHANGED <<leases, elected, captureInfos>>
  /\ UNCHANGED <<runVars, campaignVars, liveness, drainPc, capHistVars>>
  /\ UNCHANGED <<metaVars, otherVars, routerVars>>

PeerElected ==
  /\ peerPc = "waiting"
  /\ Running
  /\ IsLeader(electionKeys, PeerLease)
  /\ elected' = elected \cup {PeerLease}
  /\ peerPc' = "leader"
  /\ UNCHANGED <<leases, electionKeys, captureInfos>>
  /\ UNCHANGED <<runVars, campaignVars, liveness, drainPc, capHistVars>>
  /\ UNCHANGED <<metaVars, otherVars, routerVars>>

\* the peer's campaignOwner goes on after its campaign: GetOwnerRevision
\* finds its key, then newOwner and setOwner
PeerSetOwner ==
  /\ peerPc = "leader"
  /\ Running
  /\ PeerLease \in elected
  /\ peerPc' = "owner"
  /\ UNCHANGED <<leases, electionKeys, elected, captureInfos>>
  /\ UNCHANGED <<runVars, campaignVars, liveness, drainPc, capHistVars>>
  /\ UNCHANGED <<metaVars, otherVars, routerVars>>

\* the peer clears its owner handle, if it has one, and resigns
PeerResign ==
  /\ peerPc \in {"leader", "owner"}
  /\ Running
  /\ electionKeys' = RemoveKey(electionKeys, PeerLease)
  /\ elected' = elected \ {PeerLease}
  /\ peerPc' = "idle"
  /\ UNCHANGED <<leases, captureInfos>>
  /\ UNCHANGED <<runVars, campaignVars, liveness, drainPc, capHistVars>>
  /\ UNCHANGED <<metaVars, otherVars, routerVars>>

\* ---- Run ----
\* the caller cancels the context it handed to Run
ParentCancel ==
  /\ Running
  /\ ~parentDone
  /\ parentDone' = TRUE
  /\ UNCHANGED <<cancelled, runPc, info, session, othPc, grpErr, runErr, runRet>>
  /\ UNCHANGED <<storeVars, campaignVars, liveness, drainPc, capHistVars>>
  /\ UNCHANGED <<metaVars, otherVars, routerVars>>

RunCall ==
  /\ runPc = "idle"
  /\ runPc' = "top"
  /\ UNCHANGED <<parentDone, cancelled, info, session, othPc, grpErr, runErr, runRet>>
  /\ UNCHANGED <<storeVars, campaignVars, liveness, drainPc, capHistVars>>
  /\ UNCHANGED <<metaVars, otherVars, routerVars>>

\* lines 745-751: the select on the parent context, then the context of
\* the iteration
RunLoopTop ==
  /\ runPc = "top"
  /\ IF parentDone
       THEN /\ runPc' = "returned"
            /\ runRet' = "nil"
            /\ UNCHANGED <<cancelled, registered, deleteAttempt>>
       ELSE /\ Cardinality(usedIds) < MaxIter
            /\ cancelled' = FALSE
            /\ runPc' = "limiter"
            /\ registered' = 0
            /\ deleteAttempt' = 0
            /\ UNCHANGED runRet
  /\ UNCHANGED <<parentDone, info, session, othPc, grpErr, runErr>>
  /\ UNCHANGED <<usedIds, resignCall>>
  /\ UNCHANGED <<storeVars, campaignVars, liveness, drainPc>>
  /\ UNCHANGED <<metaVars, otherVars, routerVars>>

\* lines 752-758: rl.Wait(ctx)
RunLimiter ==
  /\ runPc = "limiter"
  /\ IF CtxDone
       THEN runPc' = "returned" /\ runRet' = "nil"
       ELSE runPc' = "reset" /\ UNCHANGED runRet
  /\ UNCHANGED <<parentDone, cancelled, info, session, othPc, grpErr, runErr>>
  /\ UNCHANGED <<storeVars, campaignVars, liveness, drainPc, capHistVars>>
  /\ UNCHANGED <<metaVars, otherVars, routerVars>>

\* uuid.New().String() (line 691): an id never generated before
NewCaptureID == Cardinality(usedIds) + 1

\* Grant (line 678): a lease never granted before
NewLease == Cardinality(usedIds) + 1

\* faulty variant: reset re-initialises the liveness
LivenessAfterReset_Alive(l) == "Alive"

\* reset hands &c.liveness to the new processor manager (lines 705-706)
\* and stores nothing in it
LivenessAfterReset(l) == l

\* c.session.Close() (line 709) revokes the lease of the old session; its
\* error is ignored.  A failed Close leaves the old lease to expire; at most
\* one such lease is followed at a time.
CloseOutcomes == IF leases \subseteq {PeerLease, session} THEN BOOLEAN ELSE {TRUE}

\* reset, called first by run (lines 784-788)
reset ==
  /\ runPc = "reset"
  /\ \/ \* Grant or NewSession fails (lines 678-686)
        /\ \E e \in RequestErrs(CtxDone) : runErr' = e
        /\ runPc' = "decide"
        /\ UNCHANGED <<info, session, usedIds, liveness, storeVars, messageRouter>>
     \/ \* AddDefaultUpstream fails (lines 690-703): the id is new, the
        \* session is not stored; the lease granted for it holds no key
        \* and is left out of the store
        /\ ~CtxDone
        /\ info' = NewCaptureID
        /\ usedIds' = usedIds \cup {NewCaptureID}
        /\ \E e \in RequestErrs(CtxDone) : runErr' = e
        /\ runPc' = "decide"
        /\ UNCHANGED <<session, liveness, storeVars, messageRouter>>
     \/ \* lines 678-736
        /\ ~CtxDone
        /\ info' = NewCaptureID
        /\ usedIds' = usedIds \cup {NewCaptureID}
        /\ liveness' = LivenessAfterReset(liveness)
        /\ \E closed \in CloseOutcomes :
             IF session # 0 /\ closed
               THEN /\ leases' = (leases \ {session}) \cup {NewLease}
                    /\ electionKeys' = RemoveKey(electionKeys, session)
                    /\ elected' = elected \ {session}
                    /\ captureInfos' = InfosWithoutLease(captureInfos, session)
               ELSE /\ leases' = leases \cup {NewLease}
                    /\ UNCHANGED <<electionKeys, elected, captureInfos>>
        /\ session' = NewLease
        /\ messageRouter' = "router"
        /\ runPc' = "register"
        /\ UNCHANGED <<runErr, peerPc>>
  /\ UNCHANGED <<parentDone, cancelled, othPc, grpErr, runRet>>
  /\ UNCHANGED <<campaignVars, drainPc, registered, deleteAttempt, resignCall>>
  /\ UNCHANGED <<metaVars, otherVars, hookFound>>

\* register (lines 1073-1079) as run calls it (lines 790-793), then the
\* three routines of the group are started (lines 809-855)
register ==
  /\ runPc = "register"
  /\ \/ /\ ~CtxDone
        /\ session \in leases
        /\ captureInfos' = captureInfos \cup {<<info, session>>}
        /\ registered' = info
        /\ runPc' = "group"
        /\ coPc' = "top"
        /\ othPc' = "running"
        /\ grpErr' = "nil"
        /\ coErr' = "nil"
        /\ reactorErr' = "nil"
        /\ resignCall' = NoResign
        /\ UNCHANGED runErr
     \/ /\ \E e \in RequestErrs(CtxDone) : runErr' = e
        /\ runPc' = "decide"
        /\ UNCHANGED <<captureInfos, registered, coPc, othPc, grpErr, coErr, reactorErr,
                       resignCall>>
  /\ UNCHANGED <<parentDone, cancelled, info, session, runRet>>
  /\ UNCHANGED <<leases, electionKeys, elected, peerPc>>
  /\ UNCHANGED <<owner, ownerStopped, liveness, drainPc, usedIds, deleteAttempt>>
  /\ UNCHANGED <<metaVars, otherVars, routerVars>>

\* g.Wait() (line 857)
runWait ==
  /\ runPc = "group"
  /\ coPc = "done"
  /\ othPc = "done"
  /\ runErr' = grpErr
  /\ runPc' = "asyncClose"
  /\ coPc' = "off"
  /\ othPc' = "off"
  /\ grpErr' = "nil"
  /\ UNCHANGED <<parentDone, cancelled, info, session, runRet>>
  /\ UNCHANGED <<owner, ownerStopped, coErr, reactorErr>>
  /\ UNCHANGED <<storeVars, liveness, drainPc, capHistVars>>
  /\ UNCHANGED <<metaVars, otherVars, routerVars>>

\* the deferred c.AsyncClose() of run (lines 804-807, 1083-1107)
runAsyncClose ==
  /\ runPc = "asyncClose"
  /\ ownerStopped' = IF owner # "nil" THEN TRUE ELSE ownerStopped
  /\ cancelled' = TRUE
  /\ messageRouter' = "nil"
  /\ runPc' = "deleteInfo"
  /\ UNCHANGED <<parentDone, info, session, othPc, grpErr, runErr, runRet>>
  /\ UNCHANGED <<owner, coPc, coErr, reactorErr>>
  /\ UNCHANGED <<storeVars, liveness, drainPc, capHistVars>>
  /\ UNCHANGED <<metaVars, otherVars, hookFound>>

\* AsyncClose called from outside while Run is running (lines 1083-1107)
AsyncClose ==
  /\ runPc \in {"limiter", "reset", "register", "group"}
  /\ ~cancelled
  /\ ownerStopped' = IF owner # "nil" THEN TRUE ELSE ownerStopped
  /\ cancelled' = TRUE
  /\ messageRouter' = "nil"
  /\ UNCHANGED <<parentDone, runPc, info, session, othPc, grpErr, runErr, runRet>>
  /\ UNCHANGED <<owner, coPc, coErr, reactorErr>>
  /\ UNCHANGED <<storeVars, liveness, drainPc, capHistVars>>
  /\ UNCHANGED <<metaVars, otherVars, hookFound>>

\* faulty variant: the delete is made under the context of run
deleteCtx_Run == "ctx"

\* context.WithTimeout(context.Background(), cleanMetaDuration) (line 795)
deleteCtx == "Background"

\* the deferred DeleteCaptureInfo of run (lines 794-802)
runDeleteCaptureInfo ==
  /\ runPc = "deleteInfo"
  /\ IF Done(deleteCtx)
       THEN UNCHANGED <<deleteAttempt, captureInfos>>
       ELSE /\ deleteAttempt' = info
            /\ \E ok \in BOOLEAN :
                 captureInfos' = IF ok THEN InfosWithoutID(captureInfos, info)
                                       ELSE captureInfos
  /\ runPc' = "decide"
  /\ UNCHANGED <<parentDone, cancelled, info, session, othPc, grpErr, runErr, runRet>>
  /\ UNCHANGED <<leases, electionKeys, elected, peerPc>>
  /\ UNCHANGED <<campaignVars, liveness, drainPc, usedIds, registered, resignCall>>
  /\ UNCHANGED <<metaVars, otherVars, routerVars>>

\* faulty variant: a deadline error is fatal
Restartable_NoDeadline == {"Suicide", "Canceled"}

\* the error classes after which Run continues (lines 773-775)
Restartable == {"Suicide", "Canceled", "DeadlineExceeded"}

\* lines 773-779
RunDecide ==
  /\ runPc = "decide"
  /\ IF runErr \in Restartable
       THEN runPc' = "top" /\ UNCHANGED runRet
       ELSE runPc' = "returned" /\ runRet' = runErr
  /\ UNCHANGED <<parentDone, cancelled, info, session, othPc, grpErr, runErr>>
  /\ UNCHANGED <<storeVars, campaignVars, liveness, drainPc, capHistVars>>
  /\ UNCHANGED <<metaVars, otherVars, routerVars>>

\* ---- campaignOwner ----
\* faulty variant: the liveness is never seen as stopping
IsStopping_Never(l) == FALSE

\* c.liveness.Load() == model.LivenessCaptureStopping (lines 894, 916)
IsStopping(l) == l = "Stopping"

\* lines 881-892: the select on the context and the rate limiter
campaignOwnerTop ==
  /\ runPc = "group"
  /\ coPc = "top"
  /\ IF GrpDone
       THEN coErr' = "nil" /\ coPc' = "ret"
       ELSE coPc' = "pre" /\ UNCHANGED coErr
  /\ UNCHANGED <<owner, ownerStopped, reactorErr>>
  /\ UNCHANGED <<storeVars, runVars, liveness, drainPc, capHistVars>>
  /\ UNCHANGED <<metaVars, otherVars, routerVars>>

\* lines 893-898
campaignOwnerPreCheck ==
  /\ coPc = "pre"
  /\ IF IsStopping(liveness)
       THEN coErr' = "nil" /\ coPc' = "ret"
       ELSE coPc' = "campaign" /\ UNCHANGED coErr
  /\ UNCHANGED <<owner, ownerStopped, reactorErr>>
  /\ UNCHANGED <<storeVars, runVars, liveness, drainPc, capHistVars>>
  /\ UNCHANGED <<metaVars, otherVars, routerVars>>

\* c.campaign is called (lines 900, 1049-1059): the candidate key is put
\* under the session lease, unless the session already has one
campaign ==
  /\ coPc = "campaign"
  /\ electionKeys' = IF session \in leases /\ ~GrpDone /\ ~InKeys(electionKeys, session)
                       THEN Append(electionKeys, session)
                       ELSE electionKeys
  /\ coPc' = "wait"
  /\ UNCHANGED <<leases, elected, captureInfos, peerPc>>
  /\ UNCHANGED <<owner, ownerStopped, coErr, reactorErr>>
  /\ UNCHANGED <<runVars, liveness, drainPc, capHistVars>>
  /\ UNCHANGED <<metaVars, otherVars, routerVars>>

\* the root errors c.election.campaign can fail with: context.Canceled,
\* mvcc.ErrCompacted itself, an rpc error that carries its text, another one
CampaignErrs ==
  (IF GrpDone THEN {"Canceled"} ELSE {}) \cup {"Compacted", "CompactedRpc", "Other"}

\* the text "required revision has been compacted" (line 1213)
CompactedText == "required revision has been compacted"

\* err.Error(), in pieces
ErrorText(err) ==
  CASE err = "Canceled" -> <<"context canceled">>
    [] err = "Compacted" -> <<"mvcc: ", CompactedText>>
    [] err = "CompactedRpc" -> <<"rpc error: code = OutOfRange desc = etcdserver: mvcc: ",
                                 CompactedText>>
    [] OTHER -> <<"etcdserver: request timed out">>

\* faulty variant: the text of the error is not looked at
isErrCompacted_Never(err) == FALSE

\* isErrCompacted (lines 1212-1214): strings.Contains(err.Error(), ...)
isErrCompacted(err) ==
  \E i \in DOMAIN ErrorText(err) : ErrorText(err)[i] = CompactedText

\* lines 902-912: what campaignOwner does with the root error of c.campaign
campaignErrAction(rootErr) ==
  IF rootErr = "Canceled" THEN "returnNil"
  ELSE IF rootErr = "Compacted" \/ isErrCompacted(rootErr) THEN "continue"
  ELSE "suicide"

\* c.campaign returns (line 900): elected, or an error whose root is kept
campaignReturn ==
  /\ coPc = "wait"
  /\ \/ \* elected
        /\ IsLeader(electionKeys, session)
        /\ elected' = elected \cup {session}
        /\ coPc' = "post"
        /\ UNCHANGED <<electionKeys, coErr>>
     \/ \E e \in CampaignErrs :
          /\ coErr' = e
          /\ coPc' = "campaignErr"
          /\ IF e = "Canceled"
               THEN \* the election withdraws the candidate key
                    /\ electionKeys' = RemoveKey(electionKeys, session)
                    /\ elected' = elected \ {session}
               ELSE UNCHANGED <<electionKeys, elected>>
  /\ UNCHANGED <<leases, captureInfos, peerPc>>
  /\ UNCHANGED <<owner, ownerStopped, reactorErr>>
  /\ UNCHANGED <<runVars, liveness, drainPc, capHistVars>>
  /\ UNCHANGED <<metaVars, otherVars, routerVars>>

\* lines 901-913: the error of c.campaign is sorted out
campaignOwnerCampaignErr ==
  /\ coPc = "campaignErr"
  /\ LET act == campaignErrAction(coErr)
     IN  /\ coPc' = IF act = "continue" THEN "top" ELSE "ret"
         /\ coErr' = IF act = "suicide" THEN "Suicide" ELSE "nil"
  /\ UNCHANGED <<owner, ownerStopped, reactorErr>>
  /\ UNCHANGED <<storeVars, runVars, liveness, drainPc, capHistVars>>
  /\ UNCHANGED <<metaVars, otherVars, routerVars>>

\* lines 914-925: with liveness stopping, c.resign(ctx); the error returned
\* at line 922 is the nil error of the campaign
campaignOwnerPostCheck ==
  /\ coPc = "post"
  /\ IF IsStopping(liveness)
       THEN /\ \E r \in ResignOutcomes(Done("ctx")) :
                 /\ resignCall' = <<"ctx", r>>
                 /\ electionKeys' = IF r = "nil" THEN RemoveKey(electionKeys, session)
                                                 ELSE electionKeys
                 /\ elected' = IF r = "nil" THEN elected \ {session} ELSE elected
            /\ coErr' = "nil"
            /\ coPc' = "ret"
       ELSE /\ coPc' = "getRev"
            /\ UNCHANGED <<resignCall, electionKeys, elected, coErr>>
  /\ UNCHANGED <<leases, captureInfos, peerPc>>
  /\ UNCHANGED <<owner, ownerStopped, reactorErr>>
  /\ UNCHANGED <<runVars, liveness, drainPc, usedIds, registered, deleteAttempt>>
  /\ UNCHANGED <<metaVars, otherVars, routerVars>>

\* GetOwnerRevision, then newOwner and setOwner (lines 927-947)
GetOwnerRevision ==
  /\ coPc = "getRev"
  /\ \/ /\ ~GrpDone
        /\ session \in elected
        /\ owner' = "owner"
        /\ ownerStopped' = FALSE
        /\ coPc' = "reactor"
        /\ UNCHANGED coErr
     \/ /\ GrpDone
        /\ coErr' = "nil"
        /\ coPc' = "ret"
        /\ UNCHANGED <<owner, ownerStopped>>
     \/ /\ ~GrpDone
        /\ coErr' = "Other"
        /\ coPc' = "ret"
        /\ UNCHANGED <<owner, ownerStopped>>
  /\ UNCHANGED reactorErr
  /\ UNCHANGED <<storeVars, runVars, liveness, drainPc, capHistVars>>
  /\ UNCHANGED <<metaVars, otherVars, routerVars>>

\* faulty variant: the ttl of the lease is not asked for
runEtcdWorker_NoTimeToLive(raw, inErr, alive) ==
  IF raw = "nil" THEN "nil"
  ELSE IF raw \in {"SessionDone", "LeaseExpired"} THEN "Suicide"
  ELSE raw

\* runEtcdWorker (lines 1007-1029): raw is what etcdWorker.Run returned,
\* inErr says that TimeToLive failed, alive that the lease still has a ttl
runEtcdWorker(raw, inErr, alive) ==
  IF raw = "nil" THEN "nil"
  ELSE IF raw \in {"SessionDone", "LeaseExpired"} THEN "Suicide"
  ELSE IF inErr THEN "EtcdAPI"
  ELSE IF ~alive THEN "Suicide"
  ELSE raw

\* what etcdWorker.Run of the owner can return: nil once the owner was
\* asked to stop
WorkerErrs ==
  (IF ownerStopped THEN {"nil"} ELSE {})
    \cup (IF GrpDone THEN {"Canceled"} ELSE {})
    \cup (IF session \notin leases THEN {"SessionDone", "LeaseExpired"} ELSE {})
    \cup {"Other"}

\* etcdWorker.Run of the owner returns (line 1007)
etcdWorkerRun ==
  /\ coPc = "reactor"
  /\ \E raw \in WorkerErrs : reactorErr' = raw
  /\ coPc' = "workerRet"
  /\ UNCHANGED <<owner, ownerStopped, coErr>>
  /\ UNCHANGED <<storeVars, runVars, liveness, drainPc, capHistVars>>
  /\ UNCHANGED <<metaVars, otherVars, routerVars>>

\* runEtcdWorker sorts the error out and returns to campaignOwner
\* (lines 1013-1029, 958-960)
ownerReactorExit ==
  /\ coPc = "workerRet"
  /\ \E inErr \in BOOLEAN :
       reactorErr' = runEtcdWorker(reactorErr, inErr, session \in leases)
  /\ coPc' = "stopOwner"
  /\ UNCHANGED <<owner, ownerStopped, coErr>>
  /\ UNCHANGED <<storeVars, runVars, liveness, drainPc, capHistVars>>
  /\ UNCHANGED <<metaVars, otherVars, routerVars>>

\* faulty variant: the owner handle is not cleared
campaignOwnerStopOwner_HandleKept ==
  /\ coPc = "stopOwner"
  /\ ownerStopped' = TRUE
  /\ coPc' = "resign"
  /\ UNCHANGED <<owner, coErr, reactorErr>>
  /\ UNCHANGED <<storeVars, runVars, liveness, drainPc, capHistVars>>
  /\ UNCHANGED <<metaVars, otherVars, routerVars>>

\* c.owner.AsyncStop(); c.setOwner(nil) (lines 961-962)
campaignOwnerStopOwner ==
  /\ coPc = "stopOwner"
  /\ ownerStopped' = TRUE
  /\ owner' = "nil"
  /\ coPc' = "resign"
  /\ UNCHANGED <<coErr, reactorErr>>
  /\ UNCHANGED <<storeVars, runVars, liveness, drainPc, capHistVars>>
  /\ UNCHANGED <<metaVars, otherVars, routerVars>>

\* faulty variant: the resign after the owner is made under the group context
resignCtx_Parent == "ctx"

\* context.WithTimeout(context.Background(), 5*time.Second) (line 966)
resignCtx == "Background"

\* lines 964-992
campaignOwnerResign ==
  /\ coPc = "resign"
  /\ \E r \in ResignOutcomes(Done(resignCtx)) :
       /\ resignCall' = <<resignCtx, r>>
       /\ electionKeys' = IF r = "nil" THEN RemoveKey(electionKeys, session)
                                       ELSE electionKeys
       /\ elected' = IF r = "nil" THEN elected \ {session} ELSE elected
       /\ IF r \notin {"nil", "DeadlineExceeded"}
            THEN coErr' = r /\ coPc' = "ret"
            ELSE IF reactorErr # "nil"
                   THEN coErr' = reactorErr /\ coPc' = "ret"
                   ELSE coPc' = "top" /\ UNCHANGED coErr
  /\ UNCHANGED <<leases, captureInfos, peerPc>>
  /\ UNCHANGED <<owner, ownerStopped, reactorErr>>
  /\ UNCHANGED <<runVars, liveness, drainPc, usedIds, registered, deleteAttempt>>
  /\ UNCHANGED <<metaVars, otherVars, routerVars>>

\* faulty variant: only an error of campaignOwner restarts the capture
campaignRoutineErr_ErrOnly(err, l) == IF err # "nil" THEN "Suicide" ELSE "nil"

\* lines 823-829: err != nil || c.liveness.Load() != LivenessCaptureStopping
campaignRoutineErr(err, l) ==
  IF err # "nil" \/ ~IsStopping(l) THEN "Suicide" ELSE "nil"

\* the routine that wraps campaignOwner (lines 818-830)
campaignOwnerRoutineExit ==
  /\ coPc = "ret"
  /\ grpErr' = FirstErr(grpErr, campaignRoutineErr(coErr, liveness))
  /\ coPc' = "done"
  /\ coErr' = "nil"
  /\ reactorErr' = "nil"
  /\ ownerStopped' = FALSE
  /\ resignCall' = NoResign
  /\ UNCHANGED <<parentDone, cancelled, runPc, info, session, othPc, runErr, runRet>>
  /\ UNCHANGED <<owner, liveness, drainPc, usedIds, registered, deleteAttempt>>
  /\ UNCHANGED storeVars
  /\ UNCHANGED <<metaVars, otherVars, routerVars>>

\* what the processor routine and the message server can return
RoutineErrs == {"Suicide", "Other"} \cup (IF GrpDone THEN {"nil", "Canceled"} ELSE {})

\* the processor routine and MessageServer.Run (lines 832-855)
otherRoutinesExit ==
  /\ runPc = "group"
  /\ othPc = "running"
  /\ \E e \in RoutineErrs : grpErr' = FirstErr(grpErr, e)
  /\ othPc' = "done"
  /\ UNCHANGED <<parentDone, cancelled, runPc, info, session, runErr, runRet>>
  /\ UNCHANGED <<storeVars, campaignVars, liveness, drainPc, capHistVars>>
  /\ UNCHANGED <<metaVars, otherVars, routerVars>>

\* ---- Drain ----
\* Drain (lines 1110-1126) makes the channel, starts the goroutine and returns
Drain ==
  /\ drainPc = "idle"
  /\ Running
  /\ drainPc' = "called"
  /\ UNCHANGED <<storeVars, runVars, campaignVars, liveness, capHistVars>>
  /\ UNCHANGED <<metaVars, otherVars, routerVars>>

\* the goroutine of Drain: c.liveness.Store (line 1117)
DrainStore ==
  /\ drainPc = "called"
  /\ liveness' = "Stopping"
  /\ drainPc' = "stored"
  /\ UNCHANGED <<storeVars, runVars, campaignVars, capHistVars>>
  /\ UNCHANGED <<metaVars, otherVars, routerVars>>

\* lines 1120-1122
DrainStopOwner ==
  /\ drainPc = "stored"
  /\ ownerStopped' = IF owner # "nil" THEN TRUE ELSE ownerStopped
  /\ drainPc' = "stopped"
  /\ UNCHANGED <<owner, coPc, coErr, reactorErr>>
  /\ UNCHANGED <<storeVars, runVars, liveness, capHistVars>>
  /\ UNCHANGED <<metaVars, otherVars, routerVars>>

\* close(done) (line 1123)
DrainClose ==
  /\ drainPc = "stopped"
  /\ drainPc' = "closed"
  /\ UNCHANGED <<storeVars, runVars, campaignVars, liveness, capHistVars>>
  /\ UNCHANGED <<metaVars, otherVars, routerVars>>

\* c.Liveness() (lines 1129-1131)
Liveness == liveness

CaptureInit ==
  /\ storage = EmptyStorage
  /\ extNil = FALSE
  /\ NewCapture
  /\ FreshProcess
  /\ IdleOthers
  /\ crashes = 0
  /\ crashRet = NoMeta
  /\ lastInit = NoInit
  /\ wroteSince = FALSE
  /\ cleanupCalled = FALSE

CaptureNext ==
  \/ RunCall
  \/ RunLoopTop
  \/ RunLimiter
  \/ reset
  \/ register
  \/ runWait
  \/ runAsyncClose
  \/ runDeleteCaptureInfo
  \/ RunDecide
  \/ campaignOwnerTop
  \/ campaignOwnerPreCheck
  \/ campaign
  \/ campaignReturn
  \/ campaignOwnerCampaignErr
  \/ campaignOwnerPostCheck
  \/ GetOwnerRevision
  \/ etcdWorkerRun
  \/ ownerReactorExit
  \/ campaignOwnerStopOwner
  \/ campaignOwnerResign
  \/ campaignOwnerRoutineExit
  \/ otherRoutinesExit
  \/ Drain
  \/ DrainStore
  \/ DrainStopOwner
  \/ DrainClose
  \/ AsyncClose
  \/ ParentCancel
  \/ LeaseExpire
  \/ PeerCampaign
  \/ PeerElected
  \/ PeerSetOwner
  \/ PeerResign

CaptureSpec == CaptureInit /\ [][CaptureNext]_vars

(***************************************************************************)
(* Properties.                                                             *)
(***************************************************************************)
Leq(m1, m2) ==
  /\ m1.CheckpointTs <= m2.CheckpointTs
  /\ m1.ResolvedTs <= m2.ResolvedTs

Flushed == LogMeta(metaCheckpointTs.flushed, metaResolvedTs.flushed)

\* a meta or log file of changefeed cf: <capture>_<namespace>_<id>_...
FileOfFeed(path, cf) ==
  /\ Len(path.toks) >= 4
  /\ path.toks[2] = cf.Namespace
  /\ path.toks[3] = cf.ID

\* the meta files of changefeed Feed in a storage
FeedMetaFiles(st) ==
  {p \in Files(st) : FileOfFeed(p, Feed) /\ p.toks[4] = RedoMetaFileType /\ p.ext = MetaEXT}

\* a step in which GetFlushedMeta returns
GetReturns == ownerPc = "GetFlushedMeta" /\ ownerPc' = "ready"

\* C1: a GetFlushedMeta call returns a checkpointTs and a resolvedTs that
\* are not below those any earlier call on the same manager returned.
C1_FlushedMetaMonotone == [][GetReturns => Leq(retMax, lastRet')]_vars

\* C1 witness: a call returned, and a later call has loaded a greater
\* checkpointTs than any returned so far.
C1_Witness ==
  /\ ownerPc = "GetFlushedMeta"
  /\ retMax # NoMeta
  /\ getCheckpointTs > retMax.CheckpointTs

\* C2: whatever the arguments of the UpdateMeta calls, GetFlushedMeta
\* returns a pair with checkpointTs <= resolvedTs.
C2_CheckpointLeqResolved == lastRet.CheckpointTs <= lastRet.ResolvedTs

\* C3: UpdateMeta(c, r) sets the unflushed resolvedTs to r exactly when r is
\* not below it, and the unflushed checkpointTs to c exactly when c is not
\* below it, each whatever happened to the other field.
C3_UpdateMetaPerField ==
  [][/\ (ownerPc = "ready" /\ ownerPc' = "UpdateMeta") =>
          /\ metaResolvedTs'.unflushed =
               IF updArgs'.ResolvedTs >= metaResolvedTs.unflushed
                 THEN updArgs'.ResolvedTs ELSE metaResolvedTs.unflushed
          /\ metaCheckpointTs'.unflushed = metaCheckpointTs.unflushed
     /\ (ownerPc = "UpdateMeta" /\ ownerPc' = "ready") =>
          /\ metaCheckpointTs'.unflushed =
               IF updArgs.CheckpointTs >= metaCheckpointTs.unflushed
                 THEN updArgs.CheckpointTs ELSE metaCheckpointTs.unflushed
          /\ metaResolvedTs'.unflushed = metaResolvedTs.unflushed]_vars

\* C3 witness: the last UpdateMeta had a checkpointTs below the current one
\* and a resolvedTs above what initMeta recovered, and a flush has published
\* the old checkpointTs with the new resolvedTs.
C3_Witness ==
  /\ ownerPc = "ready"
  /\ updArgs.CheckpointTs < metaCheckpointTs.unflushed
  /\ updArgs.ResolvedTs > lastInit.meta.ResolvedTs
  /\ Flushed = LogMeta(metaCheckpointTs.unflushed, updArgs.ResolvedTs)

\* a step of UpdateMeta(c, r) with c below the unflushed checkpointTs
RegressedCheckpointStep ==
  \/ /\ ownerPc = "ready" /\ ownerPc' = "UpdateMeta"
     /\ updArgs'.CheckpointTs < metaCheckpointTs.unflushed
  \/ /\ ownerPc = "UpdateMeta" /\ ownerPc' = "ready"
     /\ updArgs.CheckpointTs < metaCheckpointTs.unflushed

\* C4 as claimed: UpdateMeta(c, r) with c below the unflushed checkpointTs
\* changes none of the four timestamps, whatever r is.
C4_RegressedCheckpointNoChange ==
  [][RegressedCheckpointStep =>
       /\ metaCheckpointTs' = metaCheckpointTs
       /\ metaResolvedTs' = metaResolvedTs]_vars

\* C4 amended: UpdateMeta(c, r) with c below the unflushed checkpointTs
\* changes neither checkpointTs nor the flushed resolvedTs; the unflushed
\* resolvedTs becomes r when r is not below it and is unchanged otherwise.
C4_RegressedCheckpointKeepsCheckpoint ==
  [][RegressedCheckpointStep =>
       /\ metaCheckpointTs' = metaCheckpointTs
       /\ metaResolvedTs'.flushed = metaResolvedTs.flushed
       /\ (ownerPc = "UpdateMeta" => metaResolvedTs' = metaResolvedTs)
       /\ (ownerPc = "ready" =>
             metaResolvedTs'.unflushed =
               IF updArgs'.ResolvedTs >= metaResolvedTs.unflushed
                 THEN updArgs'.ResolvedTs ELSE metaResolvedTs.unflushed)]_vars

\* C4 witness: an UpdateMeta call whose checkpointTs is below the unflushed
\* one has stored its resolvedTs, which the flusher has not published yet.
C4_Witness ==
  /\ ownerPc = "UpdateMeta"
  /\ updArgs.CheckpointTs < metaCheckpointTs.unflushed
  /\ updArgs.ResolvedTs = metaResolvedTs.unflushed
  /\ metaResolvedTs.flushed < metaResolvedTs.unflushed
  /\ flushPc = "tick"

\* C5: a non-zero pair returned by GetFlushedMeta is the content of a meta
\* file whose write had succeeded.
C5_ReturnedPairWasWritten == lastRet # NoMeta => lastRet \in written

\* flush has returned nil and postFlushMeta has not run yet
AfterFlush == flushPc = "postResolved"

\* C6 as claimed: after every successful flush, the forced one of initMeta
\* included, the changefeed has exactly one meta file, the new one.
C6_OneMetaFileAfterFlush ==
  AfterFlush => FeedMetaFiles(storage) = {preMetaFile}

\* C6 amended: after a successful flush of bgFlushMeta no meta file of the
\* changefeed other than the new one exists, and the new one exists unless
\* Cleanup was called; after initMeta has returned nil (its deletes done, not
\* right after its flush) the changefeed has exactly one meta file.
C6_OneMetaFileAfterBgFlushAndInit ==
  /\ (AfterFlush /\ flushCaller = "bg") =>
        /\ FeedMetaFiles(storage) \subseteq {preMetaFile}
        /\ ~cleanupCalled => FeedMetaFiles(storage) = {preMetaFile}
  /\ ownerPc = "constructed" => FeedMetaFiles(storage) = {preMetaFile}

\* C6 witness: bgFlushMeta has flushed a second time, its previous file is
\* gone and the new one is the only one.
C6_Witness ==
  /\ AfterFlush
  /\ flushCaller = "bg"
  /\ ~cleanupCalled
  /\ Cardinality(written) >= 3
  /\ FeedMetaFiles(storage) = {preMetaFile}

\* the LogMeta values stored in the meta files initMeta could read: those
\* that still exist and are not empty
StoredMetas(walk) ==
  {walk.storage[p] : p \in {q \in walk.listed \cap DOMAIN walk.storage :
                              Len(walk.storage[q]) # 0}}

\* C7: after a successful initMeta(startTs) the flushed pair is
\* (max(startTs, max checkpointTs stored), max(startTs, max resolvedTs
\* stored, that checkpointTs)); missing and empty files count for nothing.
C7_InitMetaMax ==
  ownerPc = "constructed" =>
    LET M == StoredMetas(initWalk)
        c == Max(startTs, SetMax({d[2] : d \in M}))
        r == Max(Max(startTs, SetMax({d[4] : d \in M})), c)
    IN  Flushed = LogMeta(c, r)

\* C7 witness: initMeta returned nil after a walk that listed a file that
\* was gone when read, an empty file and a file holding a LogMeta.
C7_Witness ==
  /\ ownerPc = "constructed"
  /\ \E p \in initWalk.listed : p \notin DOMAIN initWalk.storage
  /\ \E p \in initWalk.listed \cap DOMAIN initWalk.storage : Len(initWalk.storage[p]) = 0
  /\ StoredMetas(initWalk) # {}

\* C8: initMeta reads and deletes no file that is not a file of its own
\* changefeed.
C8_InitMetaOwnFilesOnly ==
  [][(ownerPc = "initMeta" \/ ownerPc = "initFlush" \/ ownerPc = "initDelete") =>
       /\ (\A p \in initWalk'.listed : FileOfFeed(p, Feed))
       /\ (\A p \in Files(storage) : ~FileOfFeed(p, Feed) => p \in Files(storage'))]_vars

C10_NoFeedFileAfterCleanup ==
  cleanupRet = "nil" =>
    \A p \in Files(storage) : ~Contains(p, getChangefeedMatcher(Feed))

\* the files a sweep of Feed is after: their path contains the matcher
Matching(st) ==
  {p \in Files(st) : p # getDeletedChangefeedMarker(Feed)
                       /\ Contains(p, getChangefeedMatcher(Feed))}

MarkerIn(st) == getDeletedChangefeedMarker(Feed) \in Files(st)

SweepStep ==
  \/ ownerPc = "preCleanupDelete"
  \/ ownerPc = "cleanupDelete"
  \/ (gcPc = "tick" /\ preCkpt' # preCkpt /\ crashes' = crashes)

\* C12: no sweep of Feed (Cleanup, preCleanup, GC) deletes a file of a
\* changefeed with another namespace or another id.
C12_SweepsIsolated ==
  [][SweepStep =>
       (\A p \in Files(storage) :
          (FileOfFeed(p, OtherFeed) \/ FileOfFeed(p, SameIdFeed)) => p \in Files(storage'))]_vars

\* the redo logs a GC sweep at ckpt is to remove
GcExpected(st, ckpt) ==
  {p \in Files(st) :
     /\ Contains(p, getChangefeedMatcher(Feed))
     /\ p.ext = LogEXT
     /\ Len(p.toks) = 6
     /\ p.toks[4] \in {RedoRowLogFileType, RedoDDLLogFileType}
     /\ ParseTs(p.toks[5]) >= 0
     /\ ParseTs(p.toks[5]) < ckpt}

\* C13: a GC sweep at flushed checkpointTs ckpt that succeeds removes
\* exactly the row and ddl logs that contain the matcher and whose commitTs
\* is below ckpt; a sweep that fails removes some of them; every other file
\* (commitTs at or above ckpt, no .log extension, unparsable name, no
\* matcher) stays.
C13_GcRemovesBelowCheckpoint ==
  [][(gcPc = "tick" /\ preCkpt' # preCkpt /\ crashes' = crashes) =>
       LET ckpt == metaCheckpointTs.flushed
           removed == Files(storage) \ Files(storage')
       IN  /\ preCkpt' = ckpt
           /\ removed \subseteq GcExpected(storage, ckpt)
           /\ gcPc' = "tick" => removed = GcExpected(storage, ckpt)
           /\ Files(storage') \subseteq Files(storage)]_vars

\* C13 witness: a sweep at the highest checkpoint has removed the log
\* below it; the log at the checkpoint, the unparsable one, the other
\* changefeed's and the meta file are still there.
C13_Witness ==
  /\ gcPc = "tick"
  /\ preCkpt = MaxTs
  /\ RowLogFile \in gcDeleted
  /\ {AboveLogFile, BadNameLogFile, OtherFeedLogFile} \subseteq Files(storage)
  /\ FeedMetaFiles(storage) # {}

C15_RunLoopContinues ==
  [][(runPc = "decide" /\ runPc' # "decide" =>
        IF runErr = "Suicide" \/ runErr = "Canceled" \/ runErr = "DeadlineExceeded"
          THEN runPc' = "top" /\ runRet' = "none"
          ELSE runPc' = "returned" /\ runRet' = runErr)
     /\ (runPc = "top" /\ runPc' # "top" =>
           IF parentDone THEN runPc' = "returned" /\ runRet' = "nil"
                         ELSE runPc' = "limiter")
     /\ (runPc' = "reset" /\ runPc # "reset" => runPc = "limiter" /\ ~parentDone)
     /\ (runPc' = "limiter" /\ runPc # "limiter" => runPc = "top")]_vars

\* run failed with a deadline error and Run is in its next iteration
C15_Witness ==
  /\ runErr = "DeadlineExceeded"
  /\ runPc = "reset"
  /\ usedIds # {}
  /\ ~parentDone

\* C16: a successful reset gives the capture an id never generated before
\* and a session on a newly granted lease; register stores that id attached
\* to that lease; and whenever run exits after a successful register,
\* DeleteCaptureInfo has been attempted for the id of that iteration, also
\* when the context of run is cancelled.
C16_FreshIdRegisteredAndDeleted ==
  [][(runPc = "reset" /\ info' # info => info' \notin usedIds)
     /\ (runPc = "reset" /\ runPc' = "register" =>
           /\ info' \notin usedIds
           /\ session' # session
           /\ session' \notin leases
           /\ session' \in leases')
     /\ (runPc = "register" /\ runPc' = "group" =>
           registered' = info /\ <<info, session>> \in captureInfos')
     /\ (runPc' = "decide" /\ runPc # "decide" /\ registered # 0 =>
           registered = info /\ deleteAttempt' = info)]_vars

\* the second iteration registered its id and, the parent context being
\* cancelled, run has exited after the delete of that id
C16_Witness ==
  /\ runPc = "decide"
  /\ Cardinality(usedIds) = MaxIter
  /\ registered = info
  /\ deleteAttempt = info
  /\ parentDone

\* C17: once the liveness is Stopping no step makes it Alive again, resets
\* included.
C17_LivenessOneWay == [][liveness = "Stopping" => liveness' = "Stopping"]_vars

\* a capture that is stopping has been reset a second time
C17_Witness ==
  /\ Liveness = "Stopping"
  /\ runPc = "register"
  /\ Cardinality(usedIds) = MaxIter

\* C18: with liveness Stopping at the check before the campaign,
\* campaignOwner returns nil without a campaign (no candidate key is put);
\* with liveness Stopping at the check after the campaign it calls resign
\* and returns, no owner having been made.
C18_StoppingChecks ==
  [][(coPc = "pre" /\ coPc' # "pre" /\ liveness = "Stopping" =>
        coPc' = "ret" /\ coErr' = "nil" /\ electionKeys' = electionKeys)
     /\ (coPc = "post" /\ coPc' # "post" /\ liveness = "Stopping" =>
           /\ coPc' = "ret"
           /\ resignCall'[1] = "ctx"
           /\ owner = "nil"
           /\ owner' = "nil")]_vars

\* elected while stopping: the capture resigned with success and left
C18_Witness ==
  /\ coPc = "ret"
  /\ liveness = "Stopping"
  /\ resignCall = <<"ctx", "nil">>
  /\ session \notin elected

\* C19: when the owner reactor has exited, campaignOwner stops the owner
\* and clears the handle, then calls resign under a detached context, so
\* that the call is never cancelled by the context of run; a resign that
\* timed out lets the loop go on (or the reactor's error be returned), any
\* other resign error is returned.
C19_ResignAfterOwnerExit ==
  [][(coPc = "workerRet" /\ coPc' # "workerRet" => coPc' = "stopOwner")
     /\ (coPc = "stopOwner" /\ coPc' # "stopOwner" =>
           ownerStopped' /\ owner' = "nil" /\ coPc' = "resign")
     /\ (coPc = "resign" /\ coPc' # "resign" =>
           /\ owner = "nil"
           /\ resignCall'[1] = "Background"
           /\ resignCall'[2] # "Canceled"
           /\ (resignCall'[2] = "nil" \/ resignCall'[2] = "DeadlineExceeded" =>
                 IF reactorErr = "nil" THEN coPc' = "top"
                                       ELSE coPc' = "ret" /\ coErr' = reactorErr)
           /\ (resignCall'[2] = "Other" => coPc' = "ret" /\ coErr' = "Other"))]_vars

\* the parent context is cancelled, the owner exited normally, the resign
\* timed out and the campaign loop goes on
C19_Witness ==
  /\ parentDone
  /\ resignCall = <<"Background", "DeadlineExceeded">>
  /\ coPc = "top"
  /\ owner = "nil"

\* C20: as soon as the Drain call has returned, Liveness() returns Stopping.
C20_StoppingWhenDrainReturns == drainPc # "idle" => Liveness = "Stopping"

\* the goroutine of Drain stores Stopping, then stops the owner, then
\* closes the channel
DrainOrder ==
  [][(drainPc' = "stopped" /\ drainPc # "stopped" => liveness = "Stopping")
     /\ (drainPc' = "closed" /\ drainPc # "closed" => drainPc = "stopped")]_vars

(***************************************************************************)
(* C21: the pair GetFlushedMeta returns while a flush runs comes from one  *)
(* flush generation: it is the flushed pair as it stood after construction *)
(* or after a complete postFlushMeta, or the pair the running postFlushMeta*)
(* is storing; never the checkpoint of one flush with the resolved         *)
(* timestamp of another.                                                   *)
(***************************************************************************)
\* the pairs of the flush generations there are: the published ones and the
\* one postFlushMeta is half way through storing
Generations ==
  published \cup (IF flushPc = "postCheckpoint" THEN {flushUnflushed} ELSE {})

C21_PairFromOneGeneration == lastRet \in Generations


(***************************************************************************)
(* The manager over blackhole storage, or with redo disabled: extStorage   *)
(* is nil.  The root is there to show that nothing touches it.             *)
(***************************************************************************)
BlackholeInit ==
  /\ storage \in InitStorages
  /\ extNil = TRUE
  /\ NewCapture
  /\ FreshProcess
  /\ IdleOthers
  /\ crashes = 0
  /\ crashRet = NoMeta
  /\ lastInit = NoInit
  /\ wroteSince = FALSE
  /\ cleanupCalled = FALSE

BlackholeNext ==
  \/ NewMetaManagerWithInit
  \/ Run
  \/ UpdateMetaResolved
  \/ UpdateMetaCheckpoint
  \/ GetFlushedCheckpoint
  \/ GetFlushedResolved
  \/ CleanupWriteMarker
  \/ Crash

BlackholeSpec == BlackholeInit /\ [][BlackholeNext]_vars

\* where the owner's side of a manager without storage can be: never in
\* preCleanupExtStorage, initMeta or the sweep of deleteAllLogs
NoStoragePcs == {"new", "constructed", "ready", "UpdateMeta", "GetFlushedMeta", "cleaned"}

(***************************************************************************)
(* C23: with blackhole storage or redo disabled no step of the manager     *)
(* touches the storage and none fails: construction skips preCleanup and   *)
(* initMeta, Run returns nil without starting bgFlushMeta or bgGC, and     *)
(* Cleanup returns nil.                                                    *)
(***************************************************************************)
C23_BlackholeDoesNothing ==
  [][(extNil) =>
       /\ storage' = storage
       /\ ownerPc' \in NoStoragePcs
       /\ flushPc' = "off" /\ gcPc' = "off"
       /\ mgrRet' \in {"none", "nil"}
       /\ cleanupRet' \in {"none", "nil"}
       /\ (ownerPc = "new" /\ ownerPc' # "new" => ownerPc' = "constructed")
       /\ (ownerPc = "constructed" /\ ownerPc' = "ready" => mgrRet' = "nil")
       /\ (cleanupCalled' /\ ~cleanupCalled =>
             ownerPc' = "cleaned" /\ cleanupRet' = "nil")]_vars

C23_Witness ==
  /\ extNil
  /\ Files(storage) # {}
  /\ mgrRet = "nil"
  /\ metaCheckpointTs.unflushed > 0
  /\ ownerPc = "cleaned"
  /\ cleanupRet = "nil"


(***************************************************************************)
(* One process of the manager that does not die, on a root no Cleanup has  *)
(* marked (preCleanup finds no marker and sweeps nothing), with the        *)
(* scheduling of its goroutines: a step of bgFlushMeta or bgGC that can be *)
(* taken is taken, calls on the storage return, and eg.Wait() returns once *)
(* both loops have.                                                        *)
(***************************************************************************)
RunLoopNext ==
  \/ NewMetaManagerWithInit
  \/ PreCleanupCheck
  \/ InitMetaWalk
  \/ InitMetaDelete
  \/ Run
  \/ FlushExit
  \/ PrepareLoadCheckpoint
  \/ PrepareLoadResolved
  \/ FlushWrite
  \/ FlushDeletePre
  \/ PostFlushResolved
  \/ PostFlushCheckpoint
  \/ UpdateMetaResolved
  \/ UpdateMetaCheckpoint
  \/ GcSkip
  \/ GcTick
  \/ GcExit
  \/ RunCtxCancel
  \/ RunReturn

RunLoopFairness ==
  /\ WF_vars(FlushExit)
  /\ WF_vars(PrepareLoadResolved)
  /\ WF_vars(FlushWrite)
  /\ WF_vars(FlushDeletePre)
  /\ WF_vars(PostFlushResolved)
  /\ WF_vars(PostFlushCheckpoint)
  /\ WF_vars(GcExit)
  /\ WF_vars(RunReturn)

RunLoopSpec == Init /\ [][RunLoopNext]_vars /\ RunLoopFairness

\* the errors a loop of Run can return, other than the context's
LoopErrs == {"WriteFile", "DeleteFile", "RemoveFilesIf"}

(***************************************************************************)
(* C28: Run runs bgFlushMeta and bgGC side by side.  Once one of them has  *)
(* returned an error or the context was cancelled, both loops exit and Run *)
(* returns; what it returns is the first error a loop returned (the        *)
(* context's error only if the context of Run was cancelled); and when Run *)
(* has returned both loops have exited, for good.                          *)
(***************************************************************************)
C28_RunJoinsBothLoops ==
  /\ [](mgrRet # "none" =>
          /\ flushPc = "exited" /\ gcPc = "exited"
          /\ mgrRet = egErr /\ mgrRet # "nil"
          /\ (mgrRet \notin LoopErrs => runCtxDone)
          /\ (flushRet \in LoopErrs /\ mgrRet # flushRet =>
                mgrRet = "RemoveFilesIf" \/ runCtxDone))
  /\ [][egErr # "nil" => egErr' = egErr]_vars
  /\ ((egCtxDone /\ gcPc # "off") ~> (flushPc = "exited" /\ gcPc = "exited"))
  /\ ((egCtxDone /\ gcPc # "off") ~> (mgrRet # "none"))

C28_Witness ==
  /\ mgrRet = "RemoveFilesIf"
  /\ flushRet = "Canceled"
  /\ ~runCtxDone


\* the errors flush returns
FlushErrs == {"WriteFile", "DeleteFile"}

(***************************************************************************)
(* C29: when flush returns an error (the write of the new meta file fails, *)
(* or the delete of the previous one fails with an error other than        *)
(* not-found) the flushed pair is not advanced, and bgFlushMeta ends       *)
(* returning that error and flushes no more; under initMeta the            *)
(* constructor fails.  A previous meta file that is not there is no error: *)
(* the flush goes on to postFlushMeta.                                     *)
(***************************************************************************)
C29_FlushErrorStopsLoop ==
  [][/\ (flushCaller = "bg" /\ flushPc \in {"flush", "flushDelete"} /\ flushPc' = "exited" =>
           /\ flushRet' = (IF flushPc = "flush" THEN "WriteFile" ELSE "DeleteFile")
           /\ (flushPc = "flushDelete" => deleteRes' = "err")
           /\ Flushed' = Flushed)
     /\ (flushCaller = "init" /\ flushPc \in {"flush", "flushDelete"} /\ flushPc' = "off"
           /\ crashes' = crashes =>
           /\ ownerPc' = "failed"
           /\ Flushed' = Flushed)
     /\ (flushRet \in FlushErrs /\ crashes' = crashes =>
           /\ flushPc' = "exited"
           /\ flushRet' = flushRet
           /\ Flushed' = Flushed)
     /\ (flushPc = "flushDelete" /\ deleteRes' # deleteRes /\ deleteRes' \in {"nil", "NotExist"} =>
           /\ flushPc' = "postResolved"
           /\ preMetaFile' = metaFile
           /\ flushRet' = flushRet
           /\ storage' = DeleteFiles(storage, {preMetaFile}))]_vars

C29_Witness ==
  /\ flushPc = "exited"
  /\ flushRet = "DeleteFile"
  /\ deleteRes = "err"
  /\ metaCheckpointTs.flushed < metaCheckpointTs.unflushed
  /\ preMetaFile \in Files(storage)


(***************************************************************************)
(* C30: Cleanup writes the deletion marker before it deletes anything.  A  *)
(* step of Cleanup removes files only in its sweep, and the sweep is       *)
(* reached only through a marker write that succeeded, with the marker in  *)
(* the storage from then on; when the marker write fails Cleanup returns   *)
(* an error and the storage is as it was.                                  *)
(***************************************************************************)
C30_MarkerBeforeDelete ==
  [][(~extNil /\ crashes' = crashes) =>
       /\ (ownerPc = "ready" /\ ownerPc' = "cleanupWalk" =>
             /\ MarkerIn(storage')
             /\ Files(storage) \subseteq Files(storage'))
       /\ (ownerPc = "ready" /\ ownerPc' = "cleaned" =>
             /\ storage' = storage
             /\ cleanupRet' = "err")
       /\ (ownerPc' \in {"cleanupWalk", "cleanupDelete"} => MarkerIn(storage'))
       /\ (ownerPc \in {"ready", "cleanupWalk", "cleanupDelete"} /\ ownerPc' # ownerPc
             /\ ~(Files(storage) \subseteq Files(storage')) =>
             /\ ownerPc = "cleanupDelete"
             /\ MarkerIn(storage) /\ MarkerIn(storage'))]_vars

\* the marker write failed: Cleanup returned the error, there is no marker
\* and the feed's files are all there
C30_Witness ==
  /\ ownerPc = "cleaned"
  /\ cleanupRet = "err"
  /\ ~MarkerIn(storage)
  /\ Matching(storage) # {}


(***************************************************************************)
(* C25: an owner is created and installed only by the campaign loop, after *)
(* c.campaign returned nil with this capture as the leader in the same     *)
(* iteration of the loop (nothing but the liveness check and               *)
(* GetOwnerRevision lies between); and a resign that follows a run of the  *)
(* owner is issued only after AsyncStop was called on that owner and the   *)
(* owner handle was cleared.                                               *)
(***************************************************************************)
C25_OwnerAfterCampaign ==
  [][/\ (coPc' = "post" /\ coPc # "post" =>
           /\ coPc = "wait"
           /\ IsLeader(electionKeys, session)
           /\ session \in elected')
     /\ (coPc' = "getRev" /\ coPc # "getRev" => coPc = "post")
     /\ (owner' = "owner" /\ owner = "nil" =>
           /\ coPc = "getRev" /\ coPc' = "reactor"
           /\ session \in elected)
     /\ (coPc' \in {"reactor", "workerRet", "stopOwner"} => owner' = "owner")
     /\ (coPc' = "resign" /\ coPc # "resign" =>
           coPc = "stopOwner" /\ ownerStopped' /\ owner' = "nil")
     /\ (resignCall' # resignCall /\ resignCall'[1] = "Background" =>
           coPc = "resign" /\ ownerStopped /\ owner = "nil")]_vars

\* the owner ran, was stopped and cleared, and the resign went through
C25_Witness ==
  /\ resignCall = <<"Background", "nil">>
  /\ ownerStopped
  /\ owner = "nil"
  /\ session \notin elected
  /\ Cardinality(usedIds) = 1

(***************************************************************************)
(* C26: when c.campaign fails, the root of the error decides: a compacted  *)
(* revision (mvcc.ErrCompacted or an error carrying its text) sends the    *)
(* loop back to its top, where the limiter is, with no owner created;      *)
(* context.Canceled makes campaignOwner return nil; any other error makes  *)
(* it return CaptureSuicide.                                               *)
(***************************************************************************)
C26_CampaignErrorSorted ==
  [][(coPc = "campaignErr" /\ coPc' # "campaignErr") =>
       /\ owner = "nil" /\ owner' = "nil"
       /\ (coErr \in {"Compacted", "CompactedRpc"} => coPc' = "top" /\ coErr' = "nil")
       /\ (coErr = "Canceled" => coPc' = "ret" /\ coErr' = "nil")
       /\ (coErr \notin {"Compacted", "CompactedRpc", "Canceled"} =>
             coPc' = "ret" /\ coErr' = "Suicide")]_vars

\* an rpc error with the text of the compaction is about to be sorted out
C26_Witness ==
  /\ coPc = "campaignErr"
  /\ coErr = "CompactedRpc"
  /\ session \in leases
  /\ ~GrpDone

(***************************************************************************)
(* C27: runEtcdWorker returns nil when the worker returned nil;            *)
(* CaptureSuicide when the worker returned session-done or lease-expired;  *)
(* for any other error it asks for the ttl of the lease and returns an     *)
(* etcd API error if the query fails, CaptureSuicide if the lease is gone  *)
(* (ttl -1), and the worker's error itself otherwise.                      *)
(***************************************************************************)
C27_ReactorExitSorted ==
  [][(coPc = "workerRet" /\ coPc' # "workerRet") =>
       /\ (reactorErr = "nil" => reactorErr' = "nil")
       /\ (reactorErr \in {"SessionDone", "LeaseExpired"} => reactorErr' = "Suicide")
       /\ (reactorErr \notin {"nil", "SessionDone", "LeaseExpired"} =>
             \/ reactorErr' = "EtcdAPI"
             \/ session \notin leases /\ reactorErr' = "Suicide"
             \/ session \in leases /\ reactorErr' = reactorErr)]_vars

\* another error of the worker while the lease is gone became CaptureSuicide
C27_Witness ==
  /\ coPc = "stopOwner"
  /\ reactorErr = "Suicide"
  /\ session \notin leases
  /\ ~GrpDone


(***************************************************************************)
(* The outer loop of captureImpl.Run against the clock: a run that fails   *)
(* at once with a restartable error, and rate.NewLimiter(0.05, 2), a token *)
(* bucket that holds up to Burst tokens, starts full and gains one token   *)
(* every 1/0.05 = 20 seconds.  The clock advances in ticks,                *)
(* TicksPerWindow of them in 20 seconds; the bucket is counted in          *)
(* 1/TicksPerWindow of a token.                                            *)
(***************************************************************************)
\* ticks of the clock in one window of 20 seconds
TicksPerWindow == 4

\* rate.NewLimiter(0.05, 2): the limit, in events per 1000 seconds
RatePerMille == 50

\* faulty variant: a bucket of three tokens
Burst_Three == 1 + 2

\* rate.NewLimiter(0.05, 2): the burst
Burst == 2

\* the window of the claim, in seconds: the time the limiter takes for a token
WindowSeconds == 1000 \div RatePerMille

\* what the bucket gains in one tick, in 1/TicksPerWindow of a token
GainPerTick == (RatePerMille * WindowSeconds) \div 1000

\* the run iterations started in the ticks of the window
RECURSIVE SumSeq(_)
SumSeq(s) == IF s = <<>> THEN 0 ELSE Head(s) + SumSeq(Tail(s))

StartedInWindow == SumSeq(limWindow)

LimiterInit ==
  /\ storage = EmptyStorage
  /\ extNil = FALSE
  /\ NewCapture
  /\ FreshProcess
  /\ crashes = 0
  /\ crashRet = NoMeta
  /\ lastInit = NoInit
  /\ wroteSince = FALSE
  /\ cleanupCalled = FALSE
  /\ limTokens = Burst * TicksPerWindow
  /\ limWindow = [i \in 1..TicksPerWindow |-> 0]
  /\ codecCfg = NoConfig
  /\ codecRet = "none"
  /\ codecAfter = NoConfig

\* the clock ticks: the bucket gains, up to the burst, and the window moves on
Tick ==
  /\ limTokens' = IF limTokens + GainPerTick > Burst * TicksPerWindow
                    THEN Burst * TicksPerWindow
                    ELSE limTokens + GainPerTick
  /\ limWindow' = <<0>> \o SubSeq(limWindow, 1, TicksPerWindow - 1)
  /\ UNCHANGED <<metaVars, capVars, codecVars>>

\* lines 752-758, rl.Wait(ctx): it returns nil once the bucket holds a whole
\* token, which it takes, and c.run is called; it returns an error when the
\* context is done
RunLimiterWait ==
  /\ runPc = "limiter"
  /\ IF CtxDone
       THEN /\ runPc' = "returned"
            /\ runRet' = "nil"
            /\ UNCHANGED limiterVars
       ELSE /\ limTokens >= TicksPerWindow
            /\ limTokens' = limTokens - TicksPerWindow
            /\ limWindow' = [limWindow EXCEPT ![1] = @ + 1]
            /\ runPc' = "reset"
            /\ UNCHANGED runRet
  /\ UNCHANGED <<parentDone, cancelled, info, session, othPc, grpErr, runErr>>
  /\ UNCHANGED <<storeVars, campaignVars, liveness, drainPc, capHistVars, routerVars>>
  /\ UNCHANGED <<metaVars, codecVars>>

\* c.run fails at once with an error Run restarts on (line 759)
RunFailsAtOnce ==
  /\ runPc = "reset"
  /\ \E e \in Restartable : runErr' = e
  /\ runPc' = "decide"
  /\ UNCHANGED <<parentDone, cancelled, info, session, othPc, grpErr, runRet>>
  /\ UNCHANGED <<storeVars, campaignVars, liveness, drainPc, capHistVars, routerVars>>
  /\ UNCHANGED <<metaVars, otherVars, routerVars>>

LimiterNext ==
  \/ RunCall
  \/ RunLoopTop
  \/ RunLimiterWait
  \/ RunFailsAtOnce
  \/ RunDecide
  \/ ParentCancel
  \/ Tick

LimiterSpec == LimiterInit /\ [][LimiterNext]_vars

(***************************************************************************)
(* C22: when every run fails at once with a restartable error, the loop of *)
(* Run starts at most 2 iterations (reset and run) in any window of 20     *)
(* seconds: the window is TicksPerWindow consecutive instants of the       *)
(* clock, the instant 20 seconds after its first one not included.         *)
(***************************************************************************)
C22_AtMostTwoStartsPerWindow == StartedInWindow <= 2

\* two iterations were started at one instant, the window is about to leave
\* that instant behind, and the third iteration is still held by rl.Wait
C22_Witness ==
  /\ limWindow[TicksPerWindow] = 2
  /\ runPc = "limiter"
  /\ ~CtxDone
  /\ limTokens = TicksPerWindow - GainPerTick


(***************************************************************************)
(* The codec Config and Validate (pkg/sink/codec/common/config.go).        *)
(***************************************************************************)
\* MaxMessageBytes and MaxBatchSize range over -MaxSize..MaxSize
MaxSize == 1

ProtocolAvro == "avro"
ProtocolCanalJSON == "canal-json"
Protocols == {ProtocolAvro, ProtocolCanalJSON, "open-protocol"}

DecimalHandlingModeString == "string"
DecimalHandlingModePrecise == "precise"
BigintUnsignedHandlingModeString == "string"
BigintUnsignedHandlingModeLong == "long"

\* the Configs the check draws from; the fields Validate does not read are
\* left out
Configs ==
  [Protocol : Protocols,
   MaxMessageBytes : (0 - MaxSize)..MaxSize,
   MaxBatchSize : (0 - MaxSize)..MaxSize,
   EnableTiDBExtension : BOOLEAN,
   EnableRowChecksum : BOOLEAN,
   AvroSchemaRegistry : {"", "http://registry:8081"},
   AvroDecimalHandlingMode : {DecimalHandlingModePrecise, DecimalHandlingModeString, "invalid"},
   AvroBigintUnsignedHandlingMode :
     {BigintUnsignedHandlingModeLong, BigintUnsignedHandlingModeString, "invalid"}]

\* faulty variant: the requirements of the row checksum are not looked at
Validate_NoChecksumRule(c) ==
  LET avro ==
        IF c.AvroSchemaRegistry = ""
          THEN "ErrCodecInvalidConfig"
        ELSE IF c.AvroDecimalHandlingMode # DecimalHandlingModePrecise
                /\ c.AvroDecimalHandlingMode # DecimalHandlingModeString
          THEN "ErrCodecInvalidConfig"
        ELSE IF c.AvroBigintUnsignedHandlingMode # BigintUnsignedHandlingModeLong
                /\ c.AvroBigintUnsignedHandlingMode # BigintUnsignedHandlingModeString
          THEN "ErrCodecInvalidConfig"
        ELSE "nil"
      err ==
        IF c.Protocol = ProtocolAvro /\ avro # "nil" THEN avro
        ELSE IF c.MaxMessageBytes <= 0 THEN "ErrCodecInvalidConfig"
        ELSE IF c.MaxBatchSize <= 0 THEN "ErrCodecInvalidConfig"
        ELSE "nil"
  IN  [err |-> err, c |-> c]

\* Config.Validate (lines 193-256): the error it returns and the Config it
\* leaves.  avro is the block of lines 202-240, entered for the avro protocol;
\* the warning of lines 194-200 changes nothing, and no statement assigns to
\* a field.
Validate(c) ==
  LET avro ==
        IF c.AvroSchemaRegistry = ""
          THEN "ErrCodecInvalidConfig"
        ELSE IF c.AvroDecimalHandlingMode # DecimalHandlingModePrecise
                /\ c.AvroDecimalHandlingMode # DecimalHandlingModeString
          THEN "ErrCodecInvalidConfig"
        ELSE IF c.AvroBigintUnsignedHandlingMode # BigintUnsignedHandlingModeLong
                /\ c.AvroBigintUnsignedHandlingMode # BigintUnsignedHandlingModeString
          THEN "ErrCodecInvalidConfig"
        ELSE IF c.EnableRowChecksum
                /\ ~(c.EnableTiDBExtension
                     /\ c.AvroDecimalHandlingMode = DecimalHandlingModeString
                     /\ c.AvroBigintUnsignedHandlingMode = BigintUnsignedHandlingModeString)
          THEN "ErrCodecInvalidConfig"
        ELSE "nil"
      err ==
        IF c.Protocol = ProtocolAvro /\ avro # "nil" THEN avro
        ELSE IF c.MaxMessageBytes <= 0 THEN "ErrCodecInvalidConfig"
        ELSE IF c.MaxBatchSize <= 0 THEN "ErrCodecInvalidConfig"
        ELSE "nil"
  IN  [err |-> err, c |-> c]

CodecInit ==
  /\ storage = EmptyStorage
  /\ extNil = FALSE
  /\ NewCapture
  /\ FreshProcess
  /\ crashes = 0
  /\ crashRet = NoMeta
  /\ lastInit = NoInit
  /\ wroteSince = FALSE
  /\ cleanupCalled = FALSE
  /\ limTokens = 0
  /\ limWindow = <<>>
  /\ codecCfg \in Configs
  /\ codecRet = "none"
  /\ codecAfter = codecCfg

\* c.Validate() is called
ValidateCall ==
  /\ codecRet = "none"
  /\ codecRet' = Validate(codecCfg).err
  /\ codecAfter' = Validate(codecCfg).c
  /\ UNCHANGED <<codecCfg, limiterVars, metaVars, capVars>>

\* WithMaxMessageBytes (lines 187-190), before another Validate
WithMaxMessageBytes ==
  /\ codecRet # "none"
  /\ \E bytes \in (0 - MaxSize)..MaxSize :
       /\ bytes # codecAfter.MaxMessageBytes
       /\ codecCfg' = [codecAfter EXCEPT !.MaxMessageBytes = bytes]
  /\ codecAfter' = codecCfg'
  /\ codecRet' = "none"
  /\ UNCHANGED <<limiterVars, metaVars, capVars>>

CodecNext ==
  \/ ValidateCall
  \/ WithMaxMessageBytes

CodecSpec == CodecInit /\ [][CodecNext]_vars

\* the Configs the claim calls valid
ValidConfig(c) ==
  /\ c.MaxMessageBytes > 0
  /\ c.MaxBatchSize > 0
  /\ (c.Protocol = "avro" =>
        /\ c.AvroSchemaRegistry # ""
        /\ c.AvroDecimalHandlingMode \in {"precise", "string"}
        /\ c.AvroBigintUnsignedHandlingMode \in {"long", "string"}
        /\ (c.EnableRowChecksum =>
              /\ c.EnableTiDBExtension
              /\ c.AvroDecimalHandlingMode = "string"
              /\ c.AvroBigintUnsignedHandlingMode = "string"))

(***************************************************************************)
(* C24: Validate returns nil exactly when MaxMessageBytes > 0 and          *)
(* MaxBatchSize > 0 and, for the avro protocol, the schema registry is not *)
(* empty, the decimal mode is precise or string, the unsigned bigint mode  *)
(* is long or string and, with the row checksum enabled, the TiDB          *)
(* extension is on and both modes are string.  Otherwise it returns an     *)
(* error.  The Config is the same after the call.                          *)
(***************************************************************************)
C24_ValidateExactly ==
  codecRet # "none" =>
    /\ (codecRet = "nil") = ValidConfig(codecCfg)
    /\ (codecRet # "nil" => codecRet = "ErrCodecInvalidConfig")
    /\ codecAfter = codecCfg

\* avro with the row checksum on, sizes right, modes right but one: rejected
C24_Witness ==
  /\ codecRet = "ErrCodecInvalidConfig"
  /\ codecCfg.Protocol = "avro"
  /\ codecCfg.EnableRowChecksum
  /\ codecCfg.EnableTiDBExtension
  /\ codecCfg.AvroSchemaRegistry # ""
  /\ codecCfg.AvroDecimalHandlingMode = "string"
  /\ codecCfg.AvroBigintUnsignedHandlingMode = "long"
  /\ codecCfg.MaxMessageBytes > 0
  /\ codecCfg.MaxBatchSize > 0


(***************************************************************************)
(* bgGC: when it sweeps and what it may sweep.                             *)
(***************************************************************************)
\* C31: a tick of bgGC whose flushed checkpointTs equals the checkpoint of
\* the previous sweep (0 before the first one) deletes nothing, calls no
\* RemoveFilesIf and keeps preCkpt; every sweep is made on a tick whose
\* flushed checkpointTs differs from the last swept value, and stores it as
\* the new last swept value.
C31_GcSkipsUnchangedCheckpoint ==
  /\ [](\A s \in gcSweeps : s[1] # s[2] /\ s[2] # 0)
  /\ [][(gcPc = "tick" /\ crashes' = crashes) =>
          /\ (metaCheckpointTs.flushed = preCkpt) =>
               (gcDeleted' = gcDeleted /\ gcSweeps' = gcSweeps /\ preCkpt' = preCkpt)
          /\ (gcSweeps' # gcSweeps \/ gcDeleted' # gcDeleted) =>
               /\ metaCheckpointTs.flushed # preCkpt
               /\ preCkpt' = metaCheckpointTs.flushed
               /\ gcSweeps' = gcSweeps \cup {<<preCkpt, metaCheckpointTs.flushed>>}]_vars

\* C31 witness: bgGC has swept twice, the second time because the flushed
\* checkpoint had moved, and now stands at a tick it skips.
C31_Witness ==
  /\ gcPc = "tick"
  /\ ~egCtxDone
  /\ Cardinality(gcSweeps) >= 2
  /\ RowLogFile \in gcDeleted
  /\ metaCheckpointTs.flushed = preCkpt


(***************************************************************************)
(* initMeta on a root whose only meta file is an empty one of this         *)
(* capture, next to a redo log and a file that is no redo file.            *)
(***************************************************************************)
OwnEmptyMetaFile == getMetafileName(CaptureID, Feed, 0)

EmptyMetaRoot == [p \in {OwnEmptyMetaFile, RowLogFile, StrayFile} |-> <<>>]

EmptyMetaInit ==
  /\ storage = EmptyMetaRoot
  /\ extNil = FALSE
  /\ NewCapture
  /\ FreshProcess
  /\ IdleOthers
  /\ crashes = 0
  /\ crashRet = NoMeta
  /\ lastInit = NoInit
  /\ wroteSince = FALSE
  /\ cleanupCalled = FALSE

\* the constructor, Run, the owner's updates, the flushes and the crash:
\* initMeta is followed without bgGC and without Cleanup
EmptyMetaNext ==
  \/ NewMetaManagerWithInit
  \/ PreCleanupCheck
  \/ InitMetaWalk
  \/ InitMetaDelete
  \/ Run
  \/ PrepareLoadCheckpoint
  \/ PrepareLoadResolved
  \/ FlushWrite
  \/ FlushDeletePre
  \/ PostFlushResolved
  \/ PostFlushCheckpoint
  \/ UpdateMetaResolved
  \/ UpdateMetaCheckpoint
  \/ Crash

EmptyMetaSpec == EmptyMetaInit /\ [][EmptyMetaNext]_vars

\* the constructor has returned nil: initMeta succeeded
InitMetaDone ==
  ownerPc \in {"constructed", "ready", "UpdateMeta", "GetFlushedMeta",
               "cleanupWalk", "cleanupDelete", "cleaned"}

\* C32: initMeta panics exactly when the checkpointTs or the resolvedTs
\* reduced from startTs and the stored meta files is zero; the panicking
\* initMeta has written no meta file and deleted no file (a file that went
\* away is one its writer on the old capture deleted), and nothing is
\* flushed; once initMeta has returned nil both flushed fields are non-zero.
C32_InitMetaPanicsOnZero ==
  /\ [](ownerPc = "panic" =>
          /\ storage = initWalk.storage
          /\ written = {}
          /\ Flushed = NoMeta
          /\ preMetaFile = NoFile)
  /\ [](InitMetaDone => (metaCheckpointTs.flushed > 0 /\ metaResolvedTs.flushed > 0))
  /\ [][ownerPc = "initMeta" =>
          LET listed == {p \in Files(storage) : IsMetaFile(p)}
              parsed == ParseMeta({LogMeta(startTs, startTs)} \cup ReadMetas(storage', listed))
              zero == parsed.CheckpointTs = 0 \/ parsed.ResolvedTs = 0
          IN  /\ ownerPc' = "panic" => zero
              /\ ownerPc' = "initFlush" => ~zero
              /\ ownerPc' = "panic" =>
                   /\ written' = written
                   /\ \A q \in Files(storage') : q \in Files(storage) /\ storage'[q] = storage[q]
                   /\ \A q \in Files(storage) \ Files(storage') : q.toks[1] = OldCaptureID]_vars

\* C32 witness: initMeta has panicked on a root that holds a meta file, and
\* the file, the redo log and the other file are all still there.
C32_Witness ==
  /\ ownerPc = "panic"
  /\ startTs = 0
  /\ crashes = 0
  /\ storage = EmptyMetaRoot


\* C33: for checkpointTs and for resolvedTs, flushed <= unflushed in every
\* state of the manager, whatever the interleaving of UpdateMeta, initMeta
\* and the flush ticks.
C33_FlushedLeqUnflushed ==
  /\ metaCheckpointTs.flushed <= metaCheckpointTs.unflushed
  /\ metaResolvedTs.flushed <= metaResolvedTs.unflushed

\* C33 witness: a background flush has raised the flushed checkpointTs above
\* the one initMeta left, up to the unflushed one, while an UpdateMeta has
\* already moved the unflushed resolvedTs past the flushed one.
C33_Witness ==
  /\ flushCaller = "bg"
  /\ lastInit.meta.CheckpointTs < MaxTs
  /\ metaCheckpointTs.flushed = MaxTs
  /\ metaCheckpointTs.unflushed = MaxTs
  /\ metaResolvedTs.flushed < metaResolvedTs.unflushed


\* the step in which the routine around campaignOwner returns
CampaignRoutineReturns == coPc = "ret" /\ coPc' = "done"

\* C34 as stated: whenever the campaignOwner routine exits while the
\* liveness is Alive, or with an error, the error of the run group is
\* CaptureSuicide; it finishes without error only when campaignOwner
\* returned nil and the liveness is Stopping.
C34_GroupFailsWithSuicide ==
  [][CampaignRoutineReturns =>
       IF coErr # "nil" \/ liveness # "Stopping"
         THEN grpErr' = "Suicide"
         ELSE grpErr' = grpErr]_vars

\* C34, amended: whenever the campaignOwner routine exits while the
\* liveness is Alive, or with an error of any class, it returns
\* CaptureSuicide to the run group: the group has failed, with CaptureSuicide
\* unless another routine had failed before, whose error the group keeps;
\* it finishes without error only when campaignOwner returned nil and the
\* liveness is Stopping.
C34_RoutineReturnsSuicide ==
  [][CampaignRoutineReturns =>
       IF coErr # "nil" \/ liveness # "Stopping"
         THEN /\ grpErr' # "nil"
              /\ grpErr = "nil" => grpErr' = "Suicide"
              /\ grpErr # "nil" => grpErr' = grpErr
         ELSE grpErr' = grpErr]_vars

\* C34 witness: campaignOwner has returned with the liveness Alive while
\* the other routines still run, and the group has failed with
\* CaptureSuicide.
C34_Witness ==
  /\ coPc = "done"
  /\ othPc = "running"
  /\ liveness = "Alive"
  /\ ~CtxDone
  /\ grpErr = "Suicide"


\* the checkpoints that a WriteFile of this process has put in a meta file
WrittenCheckpoints == {m.CheckpointTs : m \in written}

\* C35: every redo log bgGC deletes has a maxCommitTs strictly below the
\* flushed checkpointTs, and the flushed checkpointTs is one that a
\* successful WriteFile had put in a meta file before; a checkpoint that is
\* only unflushed, or whose flush failed, deletes nothing.
C35_GcOnlyBelowDurableCheckpoint ==
  /\ [](metaCheckpointTs.flushed = 0 \/ metaCheckpointTs.flushed \in WrittenCheckpoints)
  /\ [][(gcDeleted' # gcDeleted /\ crashes' = crashes) =>
          \A p \in gcDeleted' \ gcDeleted :
             /\ ParseLogFileName(p).ok
             /\ ParseLogFileName(p).commitTs < metaCheckpointTs.flushed
             /\ \E c \in WrittenCheckpoints : ParseLogFileName(p).commitTs < c]_vars

\* C35 witness: bgGC swept at checkpoint 1 and kept the log of commitTs 1,
\* then deleted it in the sweep at a flushed checkpoint above 1.
C35_Witness ==
  /\ <<0, 1>> \in gcSweeps
  /\ \E c \in WrittenCheckpoints : c > 1 /\ <<1, c>> \in gcSweeps
  /\ RowLogFile \in gcDeleted


\* C36: once Drain has closed its channel, the capture holds no owner that
\* has not been asked to stop: no owner is installed after the close, and an
\* owner that is installed when the channel is closed had AsyncStop called.
C36_NoLiveOwnerAfterDrain ==
  (drainPc = "closed" /\ owner = "owner") => ownerStopped


\* campaignOwner is past a campaign that returned nil
AfterCampaign == coPc \in {"post", "getRev", "reactor", "workerRet", "stopOwner", "resign"}

\* C37: once c.campaign has returned nil, campaignOwner returns only from a
\* step that has called c.resign for that ownership: the active resign
\* after the liveness check, or the resign that follows the owner's run;
\* never from GetOwnerRevision.
C37_ResignBeforeReturn ==
  [][(AfterCampaign /\ coPc' = "ret") =>
       (coPc \in {"post", "resign"} /\ resignCall'[1] # "none")]_vars


\* IsOwner() (lines 1171-1176): the owner handle is not nil
IsOwner == owner # "nil"

\* C38: at every instant at most one capture of the cluster has an owner
\* instance installed (IsOwner() is true on at most one capture).
C38_AtMostOneOwnerInstance == ~(IsOwner /\ peerPc = "owner")


\* C39: when the liveness check after the campaign finds Stopping and the
\* active resign fails, campaignOwner returns an error that is not nil.
C39_FailedActiveResignReported ==
  [][(coPc = "post" /\ coPc' = "ret" /\ liveness = "Stopping" /\ resignCall'[2] # "nil") =>
       coErr' # "nil"]_vars


(***************************************************************************)
(* The capture hooks and c.MessageRouter.  run installs onCaptureAdded and *)
(* onCaptureRemoved on the global state it hands to the reactor of the     *)
(* processor routine (lines 835-847); the hooks read c.MessageRouter when  *)
(* they are called.  campaignOwner installs the same hooks on a global     *)
(* state (lines 949-956) that is not the one it hands to runEtcdWorker     *)
(* (line 959 makes another one), so no reactor ever calls those.           *)
(***************************************************************************)
\* a tick of the processor's reactor sees a capture come or go and calls the
\* hook: c.MessageRouter.AddPeer or RemovePeer (lines 837-842)
processorHook ==
  /\ runPc = "group"
  /\ othPc = "running"
  /\ hookFound' = messageRouter
  /\ UNCHANGED <<storeVars, runVars, campaignVars, liveness, drainPc, capHistVars,
                 messageRouter>>
  /\ UNCHANGED <<metaVars, otherVars>>

\* one capture on its own: Run, the three routines, the hook, AsyncClose
\* and the cancellation of the parent context
RouterNext ==
  \/ RunCall
  \/ RunLoopTop
  \/ RunLimiter
  \/ reset
  \/ register
  \/ runWait
  \/ runAsyncClose
  \/ runDeleteCaptureInfo
  \/ RunDecide
  \/ campaignOwnerTop
  \/ campaignOwnerPreCheck
  \/ campaign
  \/ campaignReturn
  \/ campaignOwnerCampaignErr
  \/ campaignOwnerPostCheck
  \/ GetOwnerRevision
  \/ etcdWorkerRun
  \/ ownerReactorExit
  \/ campaignOwnerStopOwner
  \/ campaignOwnerResign
  \/ campaignOwnerRoutineExit
  \/ otherRoutinesExit
  \/ processorHook
  \/ AsyncClose
  \/ ParentCancel

RouterSpec == CaptureInit /\ [][RouterNext]_vars

\* C40: a call of an onCaptureAdded or onCaptureRemoved hook never finds
\* c.MessageRouter nil.
C40_HookFindsRouter == hookFound # "nil"

====
